---------------------------- MODULE Spec2Model ----------------------------
(***************************************************************************)
(* World Fairness Score: the scoring core of calculate.ts and generate.ts. *)
(*                                                                         *)
(* Number representation.  The TypeScript code computes on IEEE doubles;   *)
(* the model computes on exact scaled integers:                            *)
(*   - a raw source value v is held as the integer v * 100 (hundredths),   *)
(*     so 7.04 is 704 and the range [-2.5, 2.5] is <<-250, 250>>;          *)
(*   - a source weight or a dimension weight w is held as w * 100, so 0.35 *)
(*     is 35 and the confidence thresholds 0.5 and 0.8 are 50 and 80;      *)
(*   - a normalized value, a dimension score or a composite score s is     *)
(*     held as s * 100 (hundredths of a point), so 93.0 is 9300; a value   *)
(*     rounded to one decimal is a multiple of 10, a value rounded to an   *)
(*     integer is a multiple of 100;                                       *)
(*   - years and the trend's change are held as they are.                  *)
(* Math.round(x) is floor(x + 0.5), on the exact quotient.                 *)
(* Where the order of the floating-point additions is the question, the    *)
(* composite is computed on doubles as well (the operators dbl_...).       *)
(***************************************************************************)
EXTENDS Integers, Sequences, FiniteSets, TLC

VARIABLES
    nvFn,        \* normalizeValue: which file's function is called
    nvConfig,    \* normalizeValue: the SourceConfig argument
    nvValue,     \* normalizeValue: the value argument
    nvResult,    \* normalizeValue: <<the value returned>>, NoResult before the call
    dsFn,        \* dimension aggregator: which file's function is called
    dsDimension, \* dimension aggregator: the dimension asked for
    dsData,      \* dimension aggregator: rawData (calculate.ts), sourceValues (generate.ts)
    dsResult,    \* dimension aggregator: <<the value returned>>, NoResult before the call
    fsFn,        \* composite: which file's function is called
    fsDimensions,\* composite: the dimensions object being built, then passed
    fsResult,    \* composite: <<the value returned>>, NoResult before the call
    trCurrentScore,     \* calculateTrend: the currentScore argument
    trHistoricalScores, \* calculateTrend: the historicalScores argument
    trYears,     \* calculateTrend: the years its clock reads returned, << >> before the call
    trResult,    \* calculateTrend: <<the value returned>>, NoResult before the call
    cyFn,        \* country: which file's pipeline is run
    cyData,      \* country: rawData (calculate.ts), sourceValues (generate.ts)
    cyHistory,   \* country: the historicalScores argument (calculate.ts)
    cyYears,     \* country: the years the clock reads returned, << >> before the call
    cyResult,    \* country: <<the value returned>>, NoResult before the call
    epEntry,     \* entry point: "main" (calculate.ts), "generateScores" (generate.ts)
    epWeights,   \* entry point: the file's DIMENSION_WEIGHTS, a weight w as w * 10000
    epValidateOnly, \* entry point: main's --validate argument
    epProcessed, \* entry point: << >> without a processed-data directory, else
                 \* <<what loadProcessedData reads from it>>
    epPc,        \* entry point: the position reached
    epLoaded,    \* entry point: data has been loaded
    epCountryData, \* entry point: the loaded map, entries <<iso3, values>>
    epNext,      \* entry point: generateScores' loop: the entry it is at
    epResults,   \* entry point: generateScores' results
    epOutput,    \* entry point: << >>, or <<the results written to the output files>>
    koFn,        \* key order: which file's composite is called
    koDimensions,\* key order: a dimensions object
    koReordered, \* key order: an object of the same entries, stored in another order
    koYear,      \* key order: the year the clock shows
    koCalls,     \* key order: one record per pair of calls made so far: the year,
                 \* the value returned for koDimensions and that for koReordered
    xcData,      \* isolation: a rawData map holding the data of two countries
    xcTwin,      \* isolation: a rawData map with the same data points for country
                 \* Iso3 and other data for the other country
    xcHistory,   \* isolation: the historicalScores argument
    xcEarlier,   \* isolation: the results of the calls made before, for the other country
    xcYears,     \* isolation: the years the clock reads returned, << >> before the call
    xcResult,    \* isolation: <<the values returned for xcData and for xcTwin>>
    faPc,        \* fetch-all: the position main has reached
    faIndicator, \* fetch-all: fetchAllIndicators' loop: the indicator it is at
    faResults,   \* fetch-all: fetchAllIndicators' results: the codes that have an entry
    faRan,       \* fetch-all: the steps started so far, in order
    faLog,       \* fetch-all: the console.error reports so far, in order
    faFiles,     \* fetch-all: the files written so far
    faFailures,  \* fetch-all: the failures that have occurred so far, in order
    lvPoints,    \* getLatestValue: the dataPoints argument
    lvResult     \* getLatestValue: <<the Map returned>>, NoResult before the call

varsNormalize == <<nvFn, nvConfig, nvValue, nvResult>>
varsDimension == <<dsFn, dsDimension, dsData, dsResult>>
varsComposite == <<fsFn, fsDimensions, fsResult>>
varsTrend     == <<trCurrentScore, trHistoricalScores, trYears, trResult>>
varsCountry   == <<cyFn, cyData, cyHistory, cyYears, cyResult>>
varsEntry     == <<epEntry, epWeights, epValidateOnly, epProcessed, epPc, epLoaded,
                   epCountryData, epNext, epResults, epOutput>>
varsOrder     == <<koFn, koDimensions, koReordered, koYear, koCalls>>
varsIsolation == <<xcData, xcTwin, xcHistory, xcEarlier, xcYears, xcResult>>
varsFetch     == <<faPc, faIndicator, faResults, faRan, faLog, faFiles, faFailures>>
varsLatest    == <<lvPoints, lvResult>>
vars == <<varsNormalize, varsDimension, varsComposite, varsTrend, varsCountry, varsEntry, varsOrder, varsIsolation, varsFetch, varsLatest>>

\* a call that has not returned yet; a returned value r is held as <<r>>
NoResult == << >>
Returned(r) == r # NoResult
ValueOf(r) == r[1]

(***************************************************************************)
(* Bounds of the model                                                     *)
(***************************************************************************)
\* raw values tried per config: min + i * (max - min) / ValueSteps, i = -1 .. ValueSteps + 1
ValueSteps == 8
\* ad-hoc configs have their range ends in -ConfigBound .. ConfigBound (hundredths)
ConfigBound == 3
\* raw values tried per source of a dimension: min + i * (max - min) / DimValueSteps,
\* i = 0 .. DimValueSteps
DimValueSteps == 2
\* a dimensions object built key by key in any order has at most MaxEntries keys
MaxEntries == 2
\* the scores put into a dimensions object: i * 100 / NumLevels, i = 0 .. NumLevels
NumLevels == 2
\* the year the clock shows when a call starts; it may turn to the next
\* year between two reads of one call
ClockYear == 2026
\* a historicalScores list has at most MaxHistory entries
MaxHistory == 2
\* the years of its entries: from HistorySpan years before the target year
\* to one year after it
HistorySpan == 1
\* their scores differ from 50 by k * 2.5 points, k = -MaxDelta .. MaxDelta
MaxDelta == 7
\* a country has the data of at most MaxLoaded providers, or of all but at
\* most MaxMissing of them
MaxLoaded == 1
MaxMissing == 2
\* one dimension weight is changed by k * 0.0005, k = -MaxWeightShift .. MaxWeightShift
MaxWeightShift == 3
\* the processed data holds at most MaxCountries countries
MaxCountries == 2
\* the scores of the objects whose key order is varied: 0 .. MaxOrderScore points
MaxOrderScore == 3
\* the composite is called at most MaxCalls times on each of them
MaxCalls == 2
\* at most MaxEarlier countries are calculated before the country looked at
MaxEarlier == 1
\* an indicator's response holds at most MaxPoints data points
MaxPoints == 3
\* their dates are the last NumYears years of the range asked for
NumYears == 2

(***************************************************************************)
(* JavaScript arithmetic                                                   *)
(***************************************************************************)
MathMax(a, b) == IF a >= b THEN a ELSE b
MathMin(a, b) == IF a <= b THEN a ELSE b
\* Math.round(num / den) for den > 0: the nearest integer, a half going up
MathRound(num, den) == (2 * num + den) \div (2 * den)
MathAbs(x) == IF x < 0 THEN -x ELSE x

RECURSIVE SumSeq(_)
SumSeq(s) == IF s = << >> THEN 0 ELSE Head(s) + SumSeq(Tail(s))

(***************************************************************************)
(* calculate.ts: the static tables                                         *)
(***************************************************************************)
DIMENSION_WEIGHTS ==
    [ democraticVoice          |-> 15,
      pressFreedom             |-> 15,
      justiceAccess            |-> 15,
      economicOpportunity      |-> 10,
      workplaceRights          |-> 10,
      healthcareAccess         |-> 10,
      housingSecurity          |-> 10,
      consumerProtection       |-> 5,
      governmentResponsiveness |-> 5,
      socialInclusion          |-> 5 ]

SourceConfig(id, min, max, invert) ==
    [id |-> id, inputRange |-> <<min, max>>, invert |-> invert]

SOURCE_CONFIGS ==
    [ freedom_house_political |-> SourceConfig("freedom_house_political", 0, 4000, FALSE),
      vdem_electoral          |-> SourceConfig("vdem_electoral", 0, 100, FALSE),
      eiu_democracy           |-> SourceConfig("eiu_democracy", 0, 1000, FALSE),
      rsf_press_freedom       |-> SourceConfig("rsf_press_freedom", 0, 10000, TRUE),
      vdem_media              |-> SourceConfig("vdem_media", 0, 100, FALSE),
      wjp_rule_of_law         |-> SourceConfig("wjp_rule_of_law", 0, 100, FALSE),
      world_bank_gini         |-> SourceConfig("world_bank_gini", 2000, 6500, TRUE),
      wef_social_mobility     |-> SourceConfig("wef_social_mobility", 0, 10000, FALSE),
      ituc_global_rights      |-> SourceConfig("ituc_global_rights", 100, 550, TRUE),
      who_uhc                 |-> SourceConfig("who_uhc", 0, 10000, FALSE),
      who_out_of_pocket       |-> SourceConfig("who_out_of_pocket", 0, 8000, TRUE),
      numbeo_property         |-> SourceConfig("numbeo_property", 200, 5000, TRUE),
      wgi_voice               |-> SourceConfig("wgi_voice", -250, 250, FALSE),
      wgi_effectiveness       |-> SourceConfig("wgi_effectiveness", -250, 250, FALSE),
      ti_cpi                  |-> SourceConfig("ti_cpi", 0, 10000, FALSE),
      undp_gii                |-> SourceConfig("undp_gii", 0, 80, TRUE),
      spi_personal_rights     |-> SourceConfig("spi_personal_rights", 0, 10000, FALSE) ]

(***************************************************************************)
(* generate.ts: the static tables (name and url of a config are not        *)
(* modelled: they are only printed)                                        *)
(***************************************************************************)
gen_SOURCE_CONFIGS ==
    [ freedom_house_political |-> SourceConfig("freedom_house_political", 0, 4000, FALSE),
      freedom_house_civil     |-> SourceConfig("freedom_house_civil", 0, 6000, FALSE),
      freedom_house_total     |-> SourceConfig("freedom_house_total", 0, 10000, FALSE),
      rsf_press_freedom       |-> SourceConfig("rsf_press_freedom", 0, 10000, TRUE),
      world_bank_gini         |-> SourceConfig("world_bank_gini", 2000, 6500, TRUE),
      wgi_voice               |-> SourceConfig("wgi_voice", -250, 250, FALSE),
      wgi_effectiveness       |-> SourceConfig("wgi_effectiveness", -250, 250, FALSE),
      wgi_corruption          |-> SourceConfig("wgi_corruption", -250, 250, FALSE),
      who_uhc_index           |-> SourceConfig("who_uhc_index", 0, 10000, FALSE),
      transparency_cpi        |-> SourceConfig("transparency_cpi", 0, 10000, FALSE),
      ituc_gri                |-> SourceConfig("ituc_gri", 0, 10000, FALSE) ]

\* variant of generate.ts's DIMENSION_WEIGHTS that weighs democraticVoice
\* 0.20 and not 0.15
gen_DIMENSION_WEIGHTS_heavierVoice ==
    [DIMENSION_WEIGHTS EXCEPT !.democraticVoice = 20]

gen_DIMENSION_WEIGHTS ==
    [ democraticVoice          |-> 15,
      pressFreedom             |-> 15,
      justiceAccess            |-> 15,
      economicOpportunity      |-> 10,
      workplaceRights          |-> 10,
      healthcareAccess         |-> 10,
      housingSecurity          |-> 10,
      consumerProtection       |-> 5,
      governmentResponsiveness |-> 5,
      socialInclusion          |-> 5 ]

(***************************************************************************)
(* JavaScript objects: a Record<string, X> is the sequence of its entries  *)
(* <<key, value>> in insertion order (the order of Object.entries); a Map  *)
(* that is only read with get is a function on the set of its keys         *)
(***************************************************************************)
Keys(obj) == {obj[i][1] : i \in DOMAIN obj}
Get(obj, key) == obj[CHOOSE i \in DOMAIN obj : obj[i][1] = key][2]
\* obj[key] = value
ObjSet(obj, key, value) ==
    IF key \in Keys(obj)
    THEN [i \in DOMAIN obj |-> IF obj[i][1] = key THEN <<key, value>> ELSE obj[i]]
    ELSE Append(obj, <<key, value>>)

(***************************************************************************)
(* The dimension -> source mappings; field is "" where the source declares *)
(* none (undefined and "" take the same branch of the key's conditional)   *)
(***************************************************************************)
Source(sourceId, weight, field) ==
    [sourceId |-> sourceId, weight |-> weight, field |-> field]

\* calculate.ts
DIMENSION_SOURCES ==
    << [dimension |-> "democraticVoice", sources |->
            << Source("freedom_house_political", 40, ""),
               Source("vdem_electoral", 40, ""),
               Source("eiu_democracy", 20, "") >>],
       [dimension |-> "pressFreedom", sources |->
            << Source("rsf_press_freedom", 50, ""),
               Source("vdem_media", 30, ""),
               Source("freedom_house_political", 20, "") >>],
       [dimension |-> "justiceAccess", sources |->
            << Source("wjp_rule_of_law", 50, "civil_justice"),
               Source("wjp_rule_of_law", 30, "criminal_justice"),
               Source("wgi_voice", 20, "") >>],
       [dimension |-> "economicOpportunity", sources |->
            << Source("world_bank_gini", 40, ""),
               Source("wef_social_mobility", 40, ""),
               Source("wgi_effectiveness", 20, "") >>],
       [dimension |-> "workplaceRights", sources |->
            << Source("ituc_global_rights", 70, ""),
               Source("wgi_voice", 30, "") >>],
       [dimension |-> "healthcareAccess", sources |->
            << Source("who_uhc", 60, ""),
               Source("who_out_of_pocket", 40, "") >>],
       [dimension |-> "housingSecurity", sources |->
            << Source("numbeo_property", 50, ""),
               Source("wgi_effectiveness", 30, ""),
               Source("spi_personal_rights", 20, "") >>],
       [dimension |-> "consumerProtection", sources |->
            << Source("wjp_rule_of_law", 50, "civil_justice"),
               Source("ti_cpi", 30, ""),
               Source("wgi_effectiveness", 20, "") >>],
       [dimension |-> "governmentResponsiveness", sources |->
            << Source("wgi_voice", 30, ""),
               Source("wgi_effectiveness", 30, ""),
               Source("ti_cpi", 40, "") >>],
       [dimension |-> "socialInclusion", sources |->
            << Source("undp_gii", 50, ""),
               Source("spi_personal_rights", 50, "") >>] >>

\* generate.ts
DIMENSION_MAPPINGS ==
    << [dimension |-> "democraticVoice", sources |->
            << Source("freedom_house_political", 50, ""),
               Source("wgi_voice", 50, "") >>],
       [dimension |-> "pressFreedom", sources |->
            << Source("rsf_press_freedom", 70, ""),
               Source("freedom_house_civil", 30, "") >>],
       [dimension |-> "justiceAccess", sources |->
            << Source("wgi_corruption", 40, ""),
               Source("transparency_cpi", 40, ""),
               Source("wgi_voice", 20, "") >>],
       [dimension |-> "economicOpportunity", sources |->
            << Source("world_bank_gini", 60, ""),
               Source("wgi_effectiveness", 40, "") >>],
       [dimension |-> "workplaceRights", sources |->
            << Source("ituc_gri", 60, ""),
               Source("freedom_house_civil", 20, ""),
               Source("wgi_voice", 20, "") >>],
       [dimension |-> "healthcareAccess", sources |->
            << Source("who_uhc_index", 70, ""),
               Source("wgi_effectiveness", 30, "") >>],
       [dimension |-> "housingSecurity", sources |->
            << Source("wgi_effectiveness", 40, ""),
               Source("world_bank_gini", 40, ""),
               Source("transparency_cpi", 20, "") >>],
       [dimension |-> "consumerProtection", sources |->
            << Source("transparency_cpi", 50, ""),
               Source("wgi_corruption", 30, ""),
               Source("wgi_effectiveness", 20, "") >>],
       [dimension |-> "governmentResponsiveness", sources |->
            << Source("wgi_voice", 35, ""),
               Source("wgi_effectiveness", 35, ""),
               Source("transparency_cpi", 30, "") >>],
       [dimension |-> "socialInclusion", sources |->
            << Source("freedom_house_civil", 50, ""),
               Source("wgi_voice", 50, "") >>] >>

(***************************************************************************)
(* normalizeValue                                                          *)
(***************************************************************************)
\* the mutant of normalizeValue that forgets to clamp
normalizeValue_noClamp(value, config) ==
    LET min == config.inputRange[1]
        max == config.inputRange[2]
        num == IF config.invert THEN (max - min) - (value - min) ELSE value - min
    IN  10 * MathRound(num * 1000, max - min)

\* the mutant of normalizeValue that never inverts
normalizeValue_noInvert(value, config) ==
    LET min     == config.inputRange[1]
        max     == config.inputRange[2]
        clamped == MathMax(min, MathMin(max, value))
    IN  10 * MathRound((clamped - min) * 1000, max - min)

\* the value NaN: with min = max the quotient is 0 / 0, and 1 - NaN and
\* Math.round(NaN) are NaN
NaN == "NaN"

\* calculate.ts: rounds to one decimal place
normalizeValue(value, config) ==
    LET min     == config.inputRange[1]
        max     == config.inputRange[2]
        clamped == MathMax(min, MathMin(max, value))
        \* normalized = num / (max - min); inverted: 1 - normalized
        num     == IF config.invert THEN (max - min) - (clamped - min) ELSE clamped - min
    IN  IF max = min THEN NaN
        ELSE 10 * MathRound(num * 1000, max - min)

gen_normalizeValue_noClamp(value, config) ==
    LET min == config.inputRange[1]
        max == config.inputRange[2]
        num == IF config.invert THEN (max - min) - (value - min) ELSE value - min
    IN  100 * MathRound(num * 100, max - min)

\* generate.ts: rounds to an integer
gen_normalizeValue(value, config) ==
    LET min     == config.inputRange[1]
        max     == config.inputRange[2]
        clamped == MathMax(min, MathMin(max, value))
        num     == IF config.invert THEN (max - min) - (clamped - min) ELSE clamped - min
    IN  IF max = min THEN NaN
        ELSE 100 * MathRound(num * 100, max - min)

(***************************************************************************)
(* calculate.ts: calculateDimensionScore                                   *)
(***************************************************************************)
\* a thrown Error, in place of the value a call returns
Throw(message) == [error |-> message]
IsError(r) == DOMAIN r = {"error"}

SetMin(S) == CHOOSE x \in S : \A y \in S : x <= y

DataKey(countryIso3, source) ==
    countryIso3 \o "_" \o source.sourceId
        \o (IF source.field # "" THEN "_" \o source.field ELSE "")

\* the mutant of FindMapping that falls back to the first mapping
FindMapping_fallback(dimension) ==
    LET hits == {i \in DOMAIN DIMENSION_SOURCES :
                    DIMENSION_SOURCES[i].dimension = dimension}
    IN  IF hits = {} THEN << DIMENSION_SOURCES[1] >> ELSE << DIMENSION_SOURCES[SetMin(hits)] >>

\* DIMENSION_SOURCES.find(d => d.dimension === dimension), << >> for undefined
FindMapping(dimension) ==
    LET hits == {i \in DOMAIN DIMENSION_SOURCES :
                    DIMENSION_SOURCES[i].dimension = dimension}
    IN  IF hits = {} THEN << >> ELSE << DIMENSION_SOURCES[SetMin(hits)] >>

EmptyAccumulator ==
    [sourceScores |-> << >>, totalWeight |-> 0, weightedSum |-> 0, estimatedCount |-> 0]

\* the mutant of AccumulateSource that adds an absent source's weight to the
\* denominator
AccumulateSource_dilute(acc, source, rawData, countryIso3) ==
    LET dataKey == DataKey(countryIso3, source)
    IN  IF dataKey \notin DOMAIN rawData
        THEN [acc EXCEPT !.totalWeight = @ + source.weight]
        ELSE IF source.sourceId \notin DOMAIN SOURCE_CONFIGS THEN acc
        ELSE LET dataPoint  == rawData[dataKey]
                 normalized == normalizeValue(dataPoint.value,
                                              SOURCE_CONFIGS[source.sourceId])
             IN  [ sourceScores   |-> Append(acc.sourceScores,
                                        [ sourceId        |-> source.sourceId,
                                          rawValue        |-> dataPoint.value,
                                          normalizedValue |-> normalized,
                                          weight          |-> source.weight,
                                          estimated       |-> dataPoint.estimated ]),
                   weightedSum    |-> acc.weightedSum + normalized * source.weight,
                   totalWeight    |-> acc.totalWeight + source.weight,
                   estimatedCount |-> acc.estimatedCount
                                        + (IF dataPoint.estimated THEN 1 ELSE 0) ]

\* the mutant of AccumulateSource that accumulates an estimated data point
\* without an entry in the audit trail
AccumulateSource_unlisted(acc, source, rawData, countryIso3) ==
    LET dataKey == DataKey(countryIso3, source)
    IN  IF dataKey \notin DOMAIN rawData THEN acc
        ELSE IF source.sourceId \notin DOMAIN SOURCE_CONFIGS THEN acc
        ELSE LET dataPoint  == rawData[dataKey]
                 normalized == normalizeValue(dataPoint.value,
                                              SOURCE_CONFIGS[source.sourceId])
             IN  [ sourceScores   |-> IF dataPoint.estimated THEN acc.sourceScores
                                      ELSE Append(acc.sourceScores,
                                        [ sourceId        |-> source.sourceId,
                                          rawValue        |-> dataPoint.value,
                                          normalizedValue |-> normalized,
                                          weight          |-> source.weight,
                                          estimated       |-> dataPoint.estimated ]),
                   weightedSum    |-> acc.weightedSum + normalized * source.weight,
                   totalWeight    |-> acc.totalWeight + source.weight,
                   estimatedCount |-> acc.estimatedCount
                                        + (IF dataPoint.estimated THEN 1 ELSE 0) ]

\* variant of AccumulateSource under a SOURCE_CONFIGS that lacks the entry of
\* freedom_house_political: the data point takes the `continue` of lines 253-255
AccumulateSource_noConfig(acc, source, rawData, countryIso3) ==
    LET dataKey == DataKey(countryIso3, source)
        configs == [id \in DOMAIN SOURCE_CONFIGS \ {"freedom_house_political"} |->
                        SOURCE_CONFIGS[id]]
    IN  IF dataKey \notin DOMAIN rawData THEN acc
        ELSE IF source.sourceId \notin DOMAIN configs THEN acc
        ELSE LET dataPoint  == rawData[dataKey]
                 normalized == normalizeValue(dataPoint.value, configs[source.sourceId])
             IN  [ sourceScores   |-> Append(acc.sourceScores,
                                        [ sourceId        |-> source.sourceId,
                                          rawValue        |-> dataPoint.value,
                                          normalizedValue |-> normalized,
                                          weight          |-> source.weight,
                                          estimated       |-> dataPoint.estimated ]),
                   weightedSum    |-> acc.weightedSum + normalized * source.weight,
                   totalWeight    |-> acc.totalWeight + source.weight,
                   estimatedCount |-> acc.estimatedCount
                                        + (IF dataPoint.estimated THEN 1 ELSE 0) ]

\* one pass of the loop over mapping.sources
AccumulateSource(acc, source, rawData, countryIso3) ==
    LET dataKey == DataKey(countryIso3, source)
    IN  IF dataKey \notin DOMAIN rawData THEN acc
        ELSE IF source.sourceId \notin DOMAIN SOURCE_CONFIGS THEN acc
        ELSE LET dataPoint  == rawData[dataKey]
                 normalized == normalizeValue(dataPoint.value,
                                              SOURCE_CONFIGS[source.sourceId])
             IN  [ sourceScores   |-> Append(acc.sourceScores,
                                        [ sourceId        |-> source.sourceId,
                                          rawValue        |-> dataPoint.value,
                                          normalizedValue |-> normalized,
                                          weight          |-> source.weight,
                                          \* dataPoint.estimated || false
                                          estimated       |-> dataPoint.estimated ]),
                   weightedSum    |-> acc.weightedSum + normalized * source.weight,
                   totalWeight    |-> acc.totalWeight + source.weight,
                   estimatedCount |-> acc.estimatedCount
                                        + (IF dataPoint.estimated THEN 1 ELSE 0) ]

RECURSIVE AccumulateSources(_, _, _, _)
AccumulateSources(acc, sources, rawData, countryIso3) ==
    IF sources = << >> THEN acc
    ELSE AccumulateSources(AccumulateSource(acc, Head(sources), rawData, countryIso3),
                           Tail(sources), rawData, countryIso3)

\* the mutant of DimensionFinalScore that rounds to two decimal places
DimensionFinalScore_twoDecimals(weightedSum, totalWeight) ==
    IF totalWeight > 0 THEN MathRound(weightedSum, totalWeight) ELSE 0

\* totalWeight > 0 ? Math.round((weightedSum / totalWeight) * 10) / 10 : 0
DimensionFinalScore(weightedSum, totalWeight) ==
    IF totalWeight > 0 THEN 10 * MathRound(weightedSum, 10 * totalWeight) ELSE 0

\* the mutant of DimensionConfidence that takes the thresholds as fractions
\* of a declared total weight of 1.5
DimensionConfidence_ofOneAndAHalf(totalWeight, estimatedCount, length) ==
    IF totalWeight < 75 \/ 2 * estimatedCount > length THEN "low"
    ELSE IF totalWeight < 120 \/ estimatedCount > 0 THEN "medium"
    ELSE "high"

\* the mutant of DimensionConfidence that grades on the estimated flags alone
DimensionConfidence_estimatedOnly(totalWeight, estimatedCount, length) ==
    IF 2 * estimatedCount > length THEN "low"
    ELSE IF estimatedCount > 0 THEN "medium"
    ELSE "high"

\* the mutant of DimensionConfidence that tests for 'medium' first
DimensionConfidence_mediumFirst(totalWeight, estimatedCount, length) ==
    IF totalWeight < 80 \/ estimatedCount > 0 THEN "medium"
    ELSE IF totalWeight < 50 \/ 2 * estimatedCount > length THEN "low"
    ELSE "high"

\* the confidence cascade; length is sourceScores.length
DimensionConfidence(totalWeight, estimatedCount, length) ==
    IF totalWeight < 50 \/ 2 * estimatedCount > length THEN "low"
    ELSE IF totalWeight < 80 \/ estimatedCount > 0 THEN "medium"
    ELSE "high"

calculateDimensionScore(dimension, rawData, countryIso3) ==
    LET mapping == FindMapping(dimension)
    IN  IF mapping = << >> THEN Throw("Unknown dimension: " \o dimension)
        ELSE LET acc == AccumulateSources(EmptyAccumulator, mapping[1].sources,
                                          rawData, countryIso3)
             IN  [ score      |-> DimensionFinalScore(acc.weightedSum, acc.totalWeight),
                   sources    |-> acc.sourceScores,
                   confidence |-> DimensionConfidence(acc.totalWeight, acc.estimatedCount,
                                                      Len(acc.sourceScores)) ]

(***************************************************************************)
(* generate.ts: calculateDimensionScores                                   *)
(***************************************************************************)
gen_EmptyAccumulator == [weightedSum |-> 0, totalWeight |-> 0]

gen_AccumulateSource_dilute(acc, source, sourceValues) ==
    IF source.sourceId \in DOMAIN sourceValues /\ source.sourceId \in DOMAIN gen_SOURCE_CONFIGS
    THEN LET normalized == gen_normalizeValue(sourceValues[source.sourceId],
                                              gen_SOURCE_CONFIGS[source.sourceId])
         IN  [ weightedSum |-> acc.weightedSum + normalized * source.weight,
               totalWeight |-> acc.totalWeight + source.weight ]
    ELSE [acc EXCEPT !.totalWeight = @ + source.weight]

\* one pass of the inner loop over mapping.sources
gen_AccumulateSource(acc, source, sourceValues) ==
    IF source.sourceId \in DOMAIN sourceValues /\ source.sourceId \in DOMAIN gen_SOURCE_CONFIGS
    THEN LET normalized == gen_normalizeValue(sourceValues[source.sourceId],
                                              gen_SOURCE_CONFIGS[source.sourceId])
         IN  [ weightedSum |-> acc.weightedSum + normalized * source.weight,
               totalWeight |-> acc.totalWeight + source.weight ]
    ELSE acc

RECURSIVE gen_AccumulateSources(_, _, _)
gen_AccumulateSources(acc, sources, sourceValues) ==
    IF sources = << >> THEN acc
    ELSE gen_AccumulateSources(gen_AccumulateSource(acc, Head(sources), sourceValues),
                               Tail(sources), sourceValues)

\* totalWeight > 0 ? Math.round(weightedSum / totalWeight) : 50
gen_DimensionFinalScore(weightedSum, totalWeight) ==
    IF totalWeight > 0 THEN 100 * MathRound(weightedSum, 100 * totalWeight) ELSE 5000

\* the outer loop over DIMENSION_MAPPINGS, filling the dimensions object
RECURSIVE gen_DimensionLoop(_, _, _)
gen_DimensionLoop(dimensions, mappings, sourceValues) ==
    IF mappings = << >> THEN dimensions
    ELSE LET mapping == Head(mappings)
             acc     == gen_AccumulateSources(gen_EmptyAccumulator, mapping.sources,
                                              sourceValues)
         IN  gen_DimensionLoop(
                 ObjSet(dimensions, mapping.dimension,
                        gen_DimensionFinalScore(acc.weightedSum, acc.totalWeight)),
                 Tail(mappings), sourceValues)

calculateDimensionScores(sourceValues) ==
    gen_DimensionLoop(<< >>, DIMENSION_MAPPINGS, sourceValues)

(***************************************************************************)
(* The composite score                                                     *)
(*                                                                         *)
(* DIMENSION_WEIGHTS is an object literal, so DIMENSION_WEIGHTS[key] finds *)
(* the table's own keys and, through the prototype chain, the members of   *)
(* Object.prototype, which are functions.  For such a key                  *)
(* `DIMENSION_WEIGHTS[key] || 0` is the function: score * weight is NaN    *)
(* and totalWeight += weight makes totalWeight a string that is not a      *)
(* number, both for the rest of the loop, so that totalWeight > 0 is false *)
(* at the end.  The accumulator's notNumbers flag records this state.      *)
(***************************************************************************)
ObjectPrototypeNames == {"constructor", "toString", "valueOf", "hasOwnProperty"}

\* table[key]: <<"own", value>>, <<"inherited">> or <<"undefined">>
JsLookup(table, key) ==
    IF key \in DOMAIN table THEN <<"own", table[key]>>
    ELSE IF key \in ObjectPrototypeNames THEN <<"inherited">>
    ELSE <<"undefined">>

FairnessEmptyAccumulator == [weightedSum |-> 0, totalWeight |-> 0, notNumbers |-> FALSE]

\* calculate.ts: one pass of calculateFairnessScore's loop:
\* DIMENSION_WEIGHTS[dimension] || 0, then the two sums
FairnessAccumulate(acc, dimension, score) ==
    LET found == JsLookup(DIMENSION_WEIGHTS, dimension)
    IN  IF found[1] = "inherited" THEN [acc EXCEPT !.notNumbers = TRUE]
        ELSE LET weight == IF found[1] = "own" THEN found[2] ELSE 0
             IN  [ weightedSum |-> acc.weightedSum + score * weight,
                   totalWeight |-> acc.totalWeight + weight,
                   notNumbers  |-> acc.notNumbers ]

\* totalWeight > 0 ? Math.round(weightedSum / totalWeight) : 0
FairnessFinalScore(acc) ==
    IF ~acc.notNumbers /\ acc.totalWeight > 0
    THEN 100 * MathRound(acc.weightedSum, 100 * acc.totalWeight)
    ELSE 0

\* calculate.ts: the loop over Object.entries(dimensions), DimensionScore values
RECURSIVE FairnessLoop(_, _)
FairnessLoop(acc, entries) ==
    IF entries = << >> THEN acc
    ELSE FairnessLoop(FairnessAccumulate(acc, Head(entries)[1], Head(entries)[2].score),
                      Tail(entries))

calculateFairnessScore(dimensions) ==
    FairnessFinalScore(FairnessLoop(FairnessEmptyAccumulator, dimensions))

\* generate.ts: one pass of calculateOverallScore's loop, DIMENSION_WEIGHTS
\* being the table weights
gen_OverallAccumulateUnder(weights, acc, dimension, score) ==
    LET found == JsLookup(weights, dimension)
    IN  IF found[1] = "inherited" THEN [acc EXCEPT !.notNumbers = TRUE]
        ELSE LET weight == IF found[1] = "own" THEN found[2] ELSE 0
             IN  [ weightedSum |-> acc.weightedSum + score * weight,
                   totalWeight |-> acc.totalWeight + weight,
                   notNumbers  |-> acc.notNumbers ]

\* generate.ts: one pass of calculateOverallScore's loop
gen_OverallAccumulate(acc, dimension, score) ==
    gen_OverallAccumulateUnder(gen_DIMENSION_WEIGHTS, acc, dimension, score)

\* totalWeight > 0 ? Math.round(weightedSum / totalWeight) : 0
gen_OverallFinalScore(acc) ==
    IF ~acc.notNumbers /\ acc.totalWeight > 0
    THEN 100 * MathRound(acc.weightedSum, 100 * acc.totalWeight)
    ELSE 0

\* generate.ts: the loop over Object.entries(dimensions), number values
RECURSIVE gen_OverallLoop(_, _)
gen_OverallLoop(acc, entries) ==
    IF entries = << >> THEN acc
    ELSE gen_OverallLoop(gen_OverallAccumulate(acc, Head(entries)[1], Head(entries)[2]),
                         Tail(entries))

calculateOverallScore(dimensions) ==
    gen_OverallFinalScore(gen_OverallLoop(FairnessEmptyAccumulator, dimensions))

\* calculateOverallScore when the file's DIMENSION_WEIGHTS is the table
\* weights, in any unit
RECURSIVE gen_OverallLoopUnder(_, _, _)
gen_OverallLoopUnder(weights, acc, entries) ==
    IF entries = << >> THEN acc
    ELSE gen_OverallLoopUnder(
             weights,
             gen_OverallAccumulateUnder(weights, acc, Head(entries)[1], Head(entries)[2]),
             Tail(entries))

calculateOverallScoreUnder(weights, dimensions) ==
    gen_OverallFinalScore(gen_OverallLoopUnder(weights, FairnessEmptyAccumulator, dimensions))

(***************************************************************************)
(* The composite on doubles.  A JavaScript Number is an IEEE-754 binary64  *)
(* value and each of +, * and / rounds its exact result to the nearest     *)
(* double, so a sum of three or more terms depends on the order of its     *)
(* terms.  The operators above compute in exact arithmetic; the ones below *)
(* compute the composite as the engine does.  A finite non-negative double *)
(* is m * 2^e, m a natural number of at most 53 bits (2^53 itself stands   *)
(* for 2^52 * 2), held as its limbs in base LimbBase, least significant    *)
(* first.                                                                  *)
(***************************************************************************)
LimbBase == 2^15

RECURSIVE BigNorm(_)
BigNorm(x) ==
    IF x = << >> THEN x
    ELSE IF x[Len(x)] = 0 THEN BigNorm(SubSeq(x, 1, Len(x) - 1))
    ELSE x

RECURSIVE BigFromInt(_)
BigFromInt(n) ==
    IF n = 0 THEN << >> ELSE <<n % LimbBase>> \o BigFromInt(n \div LimbBase)

RECURSIVE BigToInt(_)
BigToInt(x) ==
    IF x = << >> THEN 0 ELSE x[1] + LimbBase * BigToInt(Tail(x))

Limb(x, i) == IF i <= Len(x) THEN x[i] ELSE 0

RECURSIVE BigAddFrom(_, _, _, _)
BigAddFrom(x, y, i, carry) ==
    IF i > Len(x) /\ i > Len(y)
    THEN IF carry = 0 THEN << >> ELSE <<carry>>
    ELSE LET t == Limb(x, i) + Limb(y, i) + carry
         IN  <<t % LimbBase>> \o BigAddFrom(x, y, i + 1, t \div LimbBase)

BigAdd(x, y) == BigAddFrom(x, y, 1, 0)

\* x - y for x >= y
RECURSIVE BigSubFrom(_, _, _, _)
BigSubFrom(x, y, i, borrow) ==
    IF i > Len(x) THEN << >>
    ELSE LET t == Limb(x, i) - Limb(y, i) - borrow
         IN  <<t % LimbBase>> \o BigSubFrom(x, y, i + 1, IF t < 0 THEN 1 ELSE 0)

BigSub(x, y) == BigNorm(BigSubFrom(x, y, 1, 0))

RECURSIVE BigCmpFrom(_, _, _)
BigCmpFrom(x, y, i) ==
    IF i = 0 THEN 0
    ELSE IF x[i] > y[i] THEN 1
    ELSE IF x[i] < y[i] THEN -1
    ELSE BigCmpFrom(x, y, i - 1)

\* 1, 0 or -1 as x is above, equal to or below y
BigCmp(x, y) ==
    IF Len(x) > Len(y) THEN 1
    ELSE IF Len(x) < Len(y) THEN -1
    ELSE BigCmpFrom(x, y, Len(x))

\* x * k for one limb k
RECURSIVE BigMulSmallFrom(_, _, _, _)
BigMulSmallFrom(x, k, i, carry) ==
    IF i > Len(x)
    THEN IF carry = 0 THEN << >> ELSE <<carry>>
    ELSE LET t == x[i] * k + carry
         IN  <<t % LimbBase>> \o BigMulSmallFrom(x, k, i + 1, t \div LimbBase)

BigMulSmall(x, k) == BigNorm(BigMulSmallFrom(x, k, 1, 0))

RECURSIVE BigMul(_, _)
BigMul(x, y) ==
    IF x = << >> \/ y = << >> THEN << >>
    ELSE BigNorm(BigAdd(BigMulSmall(x, y[1]), <<0>> \o BigMul(x, Tail(y))))

RECURSIVE ZeroLimbs(_)
ZeroLimbs(n) == IF n = 0 THEN << >> ELSE <<0>> \o ZeroLimbs(n - 1)

\* x * 2^s
BigShl(x, s) ==
    IF x = << >> THEN x
    ELSE ZeroLimbs(s \div 15) \o BigMulSmall(x, 2^(s % 15))

\* floor(x / 2^s)
BigShr(x, s) ==
    LET drop == s \div 15
        bits == s % 15
        kept == IF drop >= Len(x) THEN << >> ELSE SubSeq(x, drop + 1, Len(x))
    IN  BigNorm([i \in 1..Len(kept) |->
                    (kept[i] \div 2^bits) + (Limb(kept, i + 1) % 2^bits) * 2^(15 - bits)])

RECURSIVE IntBitLen(_)
IntBitLen(n) == IF n = 0 THEN 0 ELSE 1 + IntBitLen(n \div 2)

BigBitLen(x) ==
    IF x = << >> THEN 0 ELSE 15 * (Len(x) - 1) + IntBitLen(x[Len(x)])

BigIsOdd(x) == x # << >> /\ x[1] % 2 = 1

\* bit i of x, bit 0 the least significant
BigBit(x, i) == (Limb(x, i \div 15 + 1) \div 2^(i % 15)) % 2

\* the largest digit k in lo..hi with k * d <= r, by bisection
RECURSIVE BigDigit(_, _, _, _)
BigDigit(r, d, lo, hi) ==
    IF lo = hi THEN lo
    ELSE LET mid == (lo + hi + 1) \div 2
         IN  IF BigCmp(BigMulSmall(d, mid), r) <= 0
             THEN BigDigit(r, d, mid, hi)
             ELSE BigDigit(r, d, lo, mid - 1)

\* long division, one limb of n at a time from limb i down: [q, r] with
\* n = q * d + r and r < d
RECURSIVE BigDivFrom(_, _, _, _)
BigDivFrom(n, d, i, st) ==
    IF i = 0 THEN st
    ELSE LET r2 == BigNorm(<<n[i]>> \o st.r)
             k  == BigDigit(r2, d, 0, LimbBase - 1)
             nx == [q |-> BigNorm(<<k>> \o st.q), r |-> BigSub(r2, BigMulSmall(d, k))]
         IN  BigDivFrom(n, d, i - 1, nx)

BigDivMod(n, d) == BigDivFrom(n, d, Len(n), [q |-> << >>, r |-> << >>])

\* the double m * 2^e
Double(m, e) == [m |-> m, e |-> e]

\* the double nearest to the real number m * 2^e, ties to the even mantissa
\* (round-to-nearest-even, the rounding of every JavaScript operator)
DoubleRound(m, e) ==
    LET len == BigBitLen(m)
    IN  IF len <= 53 THEN Double(m, e)
        ELSE LET s    == len - 53
                 q    == BigShr(m, s)
                 rem  == BigSub(m, BigShl(q, s))
                 half == BigShl(<<1>>, s - 1)
                 c    == BigCmp(rem, half)
                 up   == c = 1 \/ (c = 0 /\ BigIsOdd(q))
             IN  Double(IF up THEN BigAdd(q, <<1>>) ELSE q, e + s)

\* a non-negative integer below 2^31 as a Number
DoubleOf(n) == Double(BigFromInt(n), 0)

\* a * b
DoubleMul(a, b) == DoubleRound(BigMul(a.m, b.m), a.e + b.e)

\* a + b
DoubleAdd(a, b) ==
    LET e == IF a.e < b.e THEN a.e ELSE b.e
    IN  DoubleRound(BigAdd(BigShl(a.m, a.e - e), BigShl(b.m, b.e - e)), e)

\* a / b for b > 0: the quotient to 55 bits or more, its last bit made sticky
DoubleDiv(a, b) ==
    LET gap == 55 + BigBitLen(b.m) - BigBitLen(a.m)
        k   == IF gap > 0 THEN gap ELSE 0
        qr  == BigDivMod(BigShl(a.m, k), b.m)
        q2  == BigAddFrom(qr.q, qr.q, 1, IF qr.r = << >> THEN 0 ELSE 1)
    IN  IF a.m = << >> THEN Double(<< >>, 0)
        ELSE DoubleRound(q2, a.e - b.e - k - 1)

DoubleIsPositive(a) == a.m # << >>

\* Math.round(a) = floor(a + 1/2), computed exactly
DoubleMathRound(a) ==
    IF a.e >= 0 THEN BigToInt(BigShl(a.m, a.e))
    ELSE BigToInt(BigShr(BigAdd(a.m, BigShl(<<1>>, -a.e - 1)), -a.e))

\* the Number a weight literal denotes: the double nearest to w / 100
WeightNumber(w) == DoubleDiv(DoubleOf(w), DoubleOf(100))

\* the Number a score is: Math.round(x * 10) / 10 (calculate.ts), or
\* Math.round(x) (generate.ts), for the score s / 100
ScoreNumber(s) == DoubleDiv(DoubleOf(s \div 10), DoubleOf(10))

dbl_EmptyAccumulator ==
    [weightedSum |-> DoubleOf(0), totalWeight |-> DoubleOf(0), notNumbers |-> FALSE]

\* one pass of the composite's loop: DIMENSION_WEIGHTS[dimension] || 0,
\* weightedSum += score * weight, totalWeight += weight
dbl_Accumulate(weights, acc, dimension, score) ==
    LET found == JsLookup(weights, dimension)
    IN  IF found[1] = "inherited" THEN [acc EXCEPT !.notNumbers = TRUE]
        ELSE LET weight == IF found[1] = "own" THEN WeightNumber(found[2]) ELSE DoubleOf(0)
             IN  [ weightedSum |-> DoubleAdd(acc.weightedSum, DoubleMul(ScoreNumber(score), weight)),
                   totalWeight |-> DoubleAdd(acc.totalWeight, weight),
                   notNumbers  |-> acc.notNumbers ]

\* totalWeight > 0 ? Math.round(weightedSum / totalWeight) : 0
dbl_FinalScore(acc) ==
    IF ~acc.notNumbers /\ DoubleIsPositive(acc.totalWeight)
    THEN 100 * DoubleMathRound(DoubleDiv(acc.weightedSum, acc.totalWeight))
    ELSE 0

\* calculate.ts: the loop over Object.entries(dimensions), DimensionScore values
RECURSIVE dbl_FairnessLoop(_, _)
dbl_FairnessLoop(acc, entries) ==
    IF entries = << >> THEN acc
    ELSE dbl_FairnessLoop(
             dbl_Accumulate(DIMENSION_WEIGHTS, acc, Head(entries)[1], Head(entries)[2].score),
             Tail(entries))

\* calculate.ts: calculateFairnessScore on doubles
dbl_calculateFairnessScore(dimensions) ==
    dbl_FinalScore(dbl_FairnessLoop(dbl_EmptyAccumulator, dimensions))

\* generate.ts: the loop over Object.entries(dimensions), number values
RECURSIVE dbl_OverallLoop(_, _)
dbl_OverallLoop(acc, entries) ==
    IF entries = << >> THEN acc
    ELSE dbl_OverallLoop(
             dbl_Accumulate(gen_DIMENSION_WEIGHTS, acc, Head(entries)[1], Head(entries)[2]),
             Tail(entries))

\* generate.ts: calculateOverallScore on doubles
dbl_calculateOverallScore(dimensions) ==
    dbl_FinalScore(dbl_OverallLoop(dbl_EmptyAccumulator, dimensions))

(***************************************************************************)
(* calculate.ts: calculateTrend.  The function reads the clock twice, for  *)
(* the target year (yearAtTarget) and for yearsCompared (yearAtReport);    *)
(* change is in whole points                                               *)
(***************************************************************************)
\* the mutant of IsEligible that leaves out the target year itself
IsEligible_strict(h, targetYear) == h.year < targetYear

\* the filter's predicate
IsEligible(h, targetYear) == h.year <= targetYear

\* Array.prototype.sort with (a, b) => b.year - a.year: stable, the greater
\* year first; one insertion of an insertion sort
RECURSIVE InsertByYearDesc(_, _)
InsertByYearDesc(sorted, h) ==
    IF sorted = << >> THEN <<h>>
    ELSE IF Head(sorted).year >= h.year
         THEN <<Head(sorted)>> \o InsertByYearDesc(Tail(sorted), h)
         ELSE <<h>> \o sorted

RECURSIVE SortByYearDesc(_)
SortByYearDesc(entries) ==
    IF entries = << >> THEN << >>
    ELSE InsertByYearDesc(SortByYearDesc(SubSeq(entries, 1, Len(entries) - 1)),
                          entries[Len(entries)])

\* historicalScores.filter(...).sort(...)[0]: << >> for undefined
SelectHistorical(historicalScores, targetYear) ==
    LET sorted == SortByYearDesc(SelectSeq(historicalScores,
                                           LAMBDA h : IsEligible(h, targetYear)))
    IN  IF sorted = << >> THEN << >> ELSE <<sorted[1]>>

NoTrend == [direction |-> "stable", change |-> 0, yearsCompared |-> 0]

\* the mutant of TrendDirection that needs more than 3 points
TrendDirection_strict(cappedChange) ==
    IF cappedChange > 3 THEN "improving"
    ELSE IF cappedChange < -3 THEN "declining"
    ELSE "stable"

TrendDirection(cappedChange) ==
    IF cappedChange >= 3 THEN "improving"
    ELSE IF cappedChange <= -3 THEN "declining"
    ELSE "stable"

calculateTrend(currentScore, historicalScores, yearAtTarget, yearAtReport) ==
    IF Len(historicalScores) = 0 THEN NoTrend
    ELSE LET targetYear      == yearAtTarget - 5
             historicalScore == SelectHistorical(historicalScores, targetYear)
         IN  IF historicalScore = << >> THEN NoTrend
             ELSE LET change       == MathRound(currentScore - historicalScore[1].score, 100)
                      cappedChange == MathMax(-15, MathMin(15, change))
                  IN  [ direction     |-> TrendDirection(cappedChange),
                        change        |-> cappedChange,
                        yearsCompared |-> yearAtReport - historicalScore[1].year ]

(***************************************************************************)
(* calculate.ts: calculateCountry.  name, region and subregion are passed  *)
(* through and calculatedAt is a timestamp: they are not modelled.  years  *)
(* holds what the reads of the clock return: calculateTrend's two, then    *)
(* dataYear's                                                              *)
(***************************************************************************)
\* the mutant of CountryDimensionsLoop that leaves out a dimension for
\* which the country has no data
RECURSIVE CountryDimensionsLoop_skipEmpty(_, _, _, _)
CountryDimensionsLoop_skipEmpty(dimensions, k, rawData, countryIso3) ==
    IF k > Len(DIMENSION_SOURCES) THEN dimensions
    ELSE LET mapping == DIMENSION_SOURCES[k]
             score   == calculateDimensionScore(mapping.dimension, rawData, countryIso3)
         IN  IF IsError(score) THEN score
             ELSE IF score.sources = << >>
             THEN CountryDimensionsLoop_skipEmpty(dimensions, k + 1, rawData, countryIso3)
             ELSE CountryDimensionsLoop_skipEmpty(
                      ObjSet(dimensions, mapping.dimension, score),
                      k + 1, rawData, countryIso3)

\* the loop over DIMENSION_SOURCES from its k-th mapping on; an error
\* thrown by calculateDimensionScore ends it
RECURSIVE CountryDimensionsLoop(_, _, _, _)
CountryDimensionsLoop(dimensions, k, rawData, countryIso3) ==
    IF k > Len(DIMENSION_SOURCES) THEN dimensions
    ELSE LET mapping == DIMENSION_SOURCES[k]
             score   == calculateDimensionScore(mapping.dimension, rawData, countryIso3)
         IN  IF IsError(score) THEN score
             ELSE CountryDimensionsLoop(ObjSet(dimensions, mapping.dimension, score),
                                        k + 1, rawData, countryIso3)

\* the mutant of CountSources that counts a source used by several
\* dimensions once
CountSources_distinct(dimensions) ==
    Cardinality(UNION { {dimensions[i][2].sources[j].sourceId :
                            j \in DOMAIN dimensions[i][2].sources} :
                        i \in DOMAIN dimensions })

\* sourcesUsed += dim.sources.length, over Object.values(dimensions)
CountSources(dimensions) ==
    SumSeq([i \in DOMAIN dimensions |-> Len(dimensions[i][2].sources)])

\* estimatedFields += dim.sources.filter(s => s.estimated).length
CountEstimated(dimensions) ==
    SumSeq([i \in DOMAIN dimensions |->
               Len(SelectSeq(dimensions[i][2].sources, LAMBDA s : s.estimated))])

LowConfidenceCount(dimensions) ==
    Len(SelectSeq(dimensions, LAMBDA entry : entry[2].confidence = "low"))

\* the mutant of OverallConfidence that grades three low dimensions low
OverallConfidence_three(lowConfidenceCount) ==
    IF lowConfidenceCount >= 3 THEN "low"
    ELSE IF lowConfidenceCount > 0 THEN "medium"
    ELSE "high"

OverallConfidence(lowConfidenceCount) ==
    IF lowConfidenceCount > 3 THEN "low"
    ELSE IF lowConfidenceCount > 0 THEN "medium"
    ELSE "high"

\* the mutant of calculateCountry that counts every data point of the map
\* as a source used
calculateCountry_wholeMap(countryIso3, rawData, historicalScores, years) ==
    LET dimensions == CountryDimensionsLoop(<< >>, 1, rawData, countryIso3)
    IN  IF IsError(dimensions) THEN dimensions
        ELSE LET fairnessScore == calculateFairnessScore(dimensions)
                 trend == calculateTrend(fairnessScore, historicalScores,
                                         years[1], years[2])
             IN  [ iso3          |-> countryIso3,
                   fairnessScore |-> fairnessScore,
                   dimensions    |-> dimensions,
                   trend         |-> trend,
                   metadata      |->
                       [ dataYear        |-> years[3],
                         sourcesUsed     |-> Cardinality(DOMAIN rawData),
                         estimatedFields |-> CountEstimated(dimensions),
                         confidence      |->
                             OverallConfidence(LowConfidenceCount(dimensions)) ] ]

\* the mutant of calculateCountry that takes the trend before the composite
\* is computed, from a score of 0
calculateCountry_staleTrend(countryIso3, rawData, historicalScores, years) ==
    LET dimensions == CountryDimensionsLoop(<< >>, 1, rawData, countryIso3)
    IN  IF IsError(dimensions) THEN dimensions
        ELSE LET fairnessScore == calculateFairnessScore(dimensions)
                 trend == calculateTrend(0, historicalScores, years[1], years[2])
             IN  [ iso3          |-> countryIso3,
                   fairnessScore |-> fairnessScore,
                   dimensions    |-> dimensions,
                   trend         |-> trend,
                   metadata      |->
                       [ dataYear        |-> years[3],
                         sourcesUsed     |-> CountSources(dimensions),
                         estimatedFields |-> CountEstimated(dimensions),
                         confidence      |->
                             OverallConfidence(LowConfidenceCount(dimensions)) ] ]

calculateCountry(countryIso3, rawData, historicalScores, years) ==
    LET dimensions == CountryDimensionsLoop(<< >>, 1, rawData, countryIso3)
    IN  IF IsError(dimensions) THEN dimensions
        ELSE LET fairnessScore == calculateFairnessScore(dimensions)
                 trend == calculateTrend(fairnessScore, historicalScores,
                                         years[1], years[2])
             IN  [ iso3          |-> countryIso3,
                   fairnessScore |-> fairnessScore,
                   dimensions    |-> dimensions,
                   trend         |-> trend,
                   metadata      |->
                       [ dataYear        |-> years[3],
                         sourcesUsed     |-> CountSources(dimensions),
                         estimatedFields |-> CountEstimated(dimensions),
                         confidence      |->
                             OverallConfidence(LowConfidenceCount(dimensions)) ] ]

(***************************************************************************)
(* generate.ts: what generateScores computes for one country that has      *)
(* metadata; the fields copied from the metadata are not modelled          *)
(***************************************************************************)
gen_ScoreCountry(iso3, sourceValues) ==
    LET dimensions    == calculateDimensionScores(sourceValues)
        fairnessScore == calculateOverallScore(dimensions)
    IN  [ iso3          |-> iso3,
          fairnessScore |-> fairnessScore,
          dimensions    |-> dimensions,
          sourcesUsed   |-> Cardinality(DOMAIN sourceValues) ]

\* the same when the file's DIMENSION_WEIGHTS is the table weights
gen_ScoreCountryUnder(weights, iso3, sourceValues) ==
    LET dimensions    == calculateDimensionScores(sourceValues)
        fairnessScore == calculateOverallScoreUnder(weights, dimensions)
    IN  [ iso3          |-> iso3,
          fairnessScore |-> fairnessScore,
          dimensions    |-> dimensions,
          sourcesUsed   |-> Cardinality(DOMAIN sourceValues) ]

\* the codes of COUNTRY_METADATA that the model's countries use ("ATA" has
\* no entry in the table)
COUNTRY_METADATA_KEYS == {"NOR", "DNK", "SWE"}

\* results.sort((a, b) => b.fairnessScore - a.fairnessScore): stable, the
\* greater score first
RECURSIVE InsertByScoreDesc(_, _)
InsertByScoreDesc(sorted, r) ==
    IF sorted = << >> THEN <<r>>
    ELSE IF Head(sorted).fairnessScore >= r.fairnessScore
         THEN <<Head(sorted)>> \o InsertByScoreDesc(Tail(sorted), r)
         ELSE <<r>> \o sorted

RECURSIVE SortByScoreDesc(_)
SortByScoreDesc(results) ==
    IF results = << >> THEN << >>
    ELSE InsertByScoreDesc(SortByScoreDesc(SubSeq(results, 1, Len(results) - 1)),
                           results[Len(results)])

(***************************************************************************)
(* calculate.ts: main's validation of the weights.  In the entry points'   *)
(* model a weight w is held as w * 10000, so the tolerance 0.001 is 10     *)
(***************************************************************************)
\* Object.values(DIMENSION_WEIGHTS).reduce((a, b) => a + b, 0)
RECURSIVE WeightSum(_)
WeightSum(weights) ==
    IF DOMAIN weights = {} THEN 0
    ELSE LET d == CHOOSE x \in DOMAIN weights : TRUE
         IN  weights[d] + WeightSum([x \in DOMAIN weights \ {d} |-> weights[x]])

\* Math.abs(weightSum - 1.0) > 0.001
WeightsRejected(weights) == MathAbs(WeightSum(weights) - 10000) > 10

\* loadRawData(): the placeholder returns an empty Map
loadRawData == << >>

(***************************************************************************)
(* The normalizer on its own: inputs drawn from the static tables and from *)
(* ad-hoc configs with min < max, values inside and outside the range      *)
(***************************************************************************)
RangeOf(f) == {f[x] : x \in DOMAIN f}

AdHocConfigs ==
    { SourceConfig("adhoc", lo, hi, inv) :
        lo \in -ConfigBound .. ConfigBound,
        hi \in -ConfigBound .. ConfigBound,
        inv \in BOOLEAN }

ValidConfigs ==
    { c \in RangeOf(SOURCE_CONFIGS) \cup RangeOf(gen_SOURCE_CONFIGS) \cup AdHocConfigs :
        c.inputRange[1] < c.inputRange[2] }

\* raw values spread over the range, one step below it and one step above it
ValuePoints(config) ==
    LET min == config.inputRange[1]
        max == config.inputRange[2]
    IN  { min + ((max - min) * i) \div ValueSteps : i \in -1 .. ValueSteps + 1 }
        \cup { min - 1, max + 1 }

IdleNormalize ==
    /\ nvFn = "idle"
    /\ nvConfig = SourceConfig("", 0, 1, FALSE)
    /\ nvValue = 0
    /\ nvResult = NoResult

IdleDimension ==
    /\ dsFn = "idle"
    /\ dsDimension = ""
    /\ dsData = << >>
    /\ dsResult = NoResult

IdleComposite ==
    /\ fsFn = "idle"
    /\ fsDimensions = << >>
    /\ fsResult = NoResult

IdleTrend ==
    /\ trCurrentScore = 0
    /\ trHistoricalScores = << >>
    /\ trYears = << >>
    /\ trResult = NoResult

IdleEntry ==
    /\ epEntry = "idle"
    /\ epWeights = << >>
    /\ epValidateOnly = FALSE
    /\ epProcessed = << >>
    /\ epPc = "idle"
    /\ epLoaded = FALSE
    /\ epCountryData = << >>
    /\ epNext = 0
    /\ epResults = << >>
    /\ epOutput = << >>

IdleOrder ==
    /\ koFn = "idle"
    /\ koDimensions = << >>
    /\ koReordered = << >>
    /\ koYear = ClockYear
    /\ koCalls = << >>

IdleIsolation ==
    /\ xcData = << >>
    /\ xcTwin = << >>
    /\ xcHistory = << >>
    /\ xcEarlier = << >>
    /\ xcYears = << >>
    /\ xcResult = NoResult

IdleLatest ==
    /\ lvPoints = << >>
    /\ lvResult = NoResult

IdleFetch ==
    /\ faPc = "idle"
    /\ faIndicator = 0
    /\ faResults = << >>
    /\ faRan = << >>
    /\ faLog = << >>
    /\ faFiles = {}
    /\ faFailures = << >>

IdleCountry ==
    /\ cyFn = "idle"
    /\ cyData = << >>
    /\ cyHistory = << >>
    /\ cyYears = << >>
    /\ cyResult = NoResult

InitNormalize ==
    /\ IdleDimension
    /\ IdleLatest
    /\ IdleFetch
    /\ IdleIsolation
    /\ IdleOrder
    /\ IdleEntry
    /\ IdleComposite
    /\ IdleTrend
    /\ IdleCountry
    /\ nvFn \in {"calculate", "generate"}
    /\ nvConfig \in ValidConfigs
    /\ nvValue \in ValuePoints(nvConfig)
    /\ nvResult = NoResult

CallNormalizeValue ==
    /\ nvFn = "calculate"
    /\ nvResult = NoResult
    /\ nvResult' = <<normalizeValue(nvValue, nvConfig)>>
    /\ UNCHANGED <<nvFn, nvConfig, nvValue, varsDimension, varsComposite, varsTrend, varsCountry, varsEntry, varsOrder, varsIsolation, varsFetch, varsLatest>>

CallGenNormalizeValue ==
    /\ nvFn = "generate"
    /\ nvResult = NoResult
    /\ nvResult' = <<gen_normalizeValue(nvValue, nvConfig)>>
    /\ UNCHANGED <<nvFn, nvConfig, nvValue, varsDimension, varsComposite, varsTrend, varsCountry, varsEntry, varsOrder, varsIsolation, varsFetch, varsLatest>>

NextNormalize == CallNormalizeValue \/ CallGenNormalizeValue

SpecNormalize == InitNormalize /\ [][NextNormalize]_vars

(***************************************************************************)
(* The normalizer on a degenerate range: ad-hoc configs with min >= max    *)
(***************************************************************************)
DegenerateConfigs == {c \in AdHocConfigs : c.inputRange[1] >= c.inputRange[2]}

InitDegenerate ==
    /\ IdleDimension
    /\ IdleLatest
    /\ IdleFetch
    /\ IdleIsolation
    /\ IdleOrder
    /\ IdleComposite
    /\ IdleTrend
    /\ IdleCountry
    /\ IdleEntry
    /\ nvFn \in {"calculate", "generate"}
    /\ nvConfig \in DegenerateConfigs
    /\ nvValue \in (-ConfigBound - 1) .. (ConfigBound + 1)
    /\ nvResult = NoResult

SpecDegenerate == InitDegenerate /\ [][NextNormalize]_vars

(***************************************************************************)
(* The dimension aggregator on its own: one dimension, every subset of its *)
(* declared sources present, each with a value of its range and, in        *)
(* calculate.ts, an estimated flag                                         *)
(***************************************************************************)
Iso3 == "NOR"

DimensionNames == {DIMENSION_SOURCES[i].dimension : i \in DOMAIN DIMENSION_SOURCES}
UnknownDimension == "notADimension"

\* what the data holds for one declared source
SourceChoices(fn) ==
    {[present |-> FALSE, step |-> 0, estimated |-> FALSE]}
    \cup {[present |-> TRUE, step |-> i, estimated |-> e] :
            i \in 0 .. DimValueSteps,
            e \in (IF fn = "calculate" THEN BOOLEAN ELSE {FALSE})}

StepValue(config, step) ==
    config.inputRange[1]
        + ((config.inputRange[2] - config.inputRange[1]) * step) \div DimValueSteps

MappingIn(table, dimension) ==
    table[CHOOSE i \in DOMAIN table : table[i].dimension = dimension]

\* rawData with the data points that pick gives the sources of a mapping
RawDataOf(mapping, pick) ==
    LET present == {i \in DOMAIN pick : pick[i].present}
    IN  [ key \in {DataKey(Iso3, mapping.sources[i]) : i \in present} |->
            LET i == CHOOSE j \in present : DataKey(Iso3, mapping.sources[j]) = key
            IN  [ value     |-> StepValue(SOURCE_CONFIGS[mapping.sources[i].sourceId],
                                          pick[i].step),
                  estimated |-> pick[i].estimated ] ]

\* sourceValues with the values that pick gives the sources of a mapping
SourceValuesOf(mapping, pick) ==
    LET present == {i \in DOMAIN pick : pick[i].present}
    IN  [ key \in {mapping.sources[i].sourceId : i \in present} |->
            LET i == CHOOSE j \in present : mapping.sources[j].sourceId = key
            IN  StepValue(gen_SOURCE_CONFIGS[key], pick[i].step) ]

InitDimension ==
    /\ IdleNormalize
    /\ IdleLatest
    /\ IdleFetch
    /\ IdleIsolation
    /\ IdleOrder
    /\ IdleEntry
    /\ IdleComposite
    /\ IdleTrend
    /\ IdleCountry
    /\ dsFn \in {"calculate", "generate"}
    /\ dsDimension \in DimensionNames \cup {UnknownDimension}
    /\ dsResult = NoResult
    /\ IF dsDimension = UnknownDimension
       \* a name that is no dimension, with the data of the first dimension
       THEN IF dsFn = "calculate"
            THEN \E pick \in [DOMAIN DIMENSION_SOURCES[1].sources -> SourceChoices(dsFn)] :
                    dsData = RawDataOf(DIMENSION_SOURCES[1], pick)
            ELSE \E pick \in [DOMAIN DIMENSION_MAPPINGS[1].sources -> SourceChoices(dsFn)] :
                    dsData = SourceValuesOf(DIMENSION_MAPPINGS[1], pick)
       ELSE IF dsFn = "calculate"
       THEN LET mapping == MappingIn(DIMENSION_SOURCES, dsDimension)
            IN  \E pick \in [DOMAIN mapping.sources -> SourceChoices(dsFn)] :
                    dsData = RawDataOf(mapping, pick)
       ELSE LET mapping == MappingIn(DIMENSION_MAPPINGS, dsDimension)
            IN  \E pick \in [DOMAIN mapping.sources -> SourceChoices(dsFn)] :
                    dsData = SourceValuesOf(mapping, pick)

CallCalculateDimensionScore ==
    /\ dsFn = "calculate"
    /\ dsResult = NoResult
    /\ dsResult' = <<calculateDimensionScore(dsDimension, dsData, Iso3)>>
    /\ UNCHANGED <<dsFn, dsDimension, dsData, varsNormalize, varsComposite, varsTrend, varsCountry, varsEntry, varsOrder, varsIsolation, varsFetch, varsLatest>>

CallCalculateDimensionScores ==
    /\ dsFn = "generate"
    /\ dsResult = NoResult
    /\ dsResult' = <<calculateDimensionScores(dsData)>>
    /\ UNCHANGED <<dsFn, dsDimension, dsData, varsNormalize, varsComposite, varsTrend, varsCountry, varsEntry, varsOrder, varsIsolation, varsFetch, varsLatest>>

NextDimension == CallCalculateDimensionScore \/ CallCalculateDimensionScores

SpecDimension == InitDimension /\ [][NextDimension]_vars

(***************************************************************************)
(* The composite scorer on its own: a dimensions object is built key by    *)
(* key, either any keys in any order (up to MaxEntries of them: canonical  *)
(* names, a name that is no dimension, a name that Object.prototype has),  *)
(* or the ten canonical keys in the order calculateCountry inserts them    *)
(***************************************************************************)
CanonicalKeys == [i \in DOMAIN DIMENSION_SOURCES |-> DIMENSION_SOURCES[i].dimension]

CompositeKeys == DimensionNames \cup {UnknownDimension, "constructor"}

\* the score levels, as multiples of unit hundredths of a point
ScoreLevel(i, unit) == ((i * 10000) \div (NumLevels * unit)) * unit

\* what the object holds for a dimension scored s: a DimensionScore
\* (calculate.ts), a number (generate.ts)
DimensionValue(fn, i) ==
    IF fn = "calculate"
    THEN [score |-> ScoreLevel(i, 10), sources |-> << >>, confidence |-> "low"]
    ELSE ScoreLevel(i, 100)

IsCanonicalPrefix(obj) ==
    /\ Len(obj) <= Len(CanonicalKeys)
    /\ \A i \in DOMAIN obj : obj[i][1] = CanonicalKeys[i]

InitComposite ==
    /\ IdleNormalize
    /\ IdleLatest
    /\ IdleFetch
    /\ IdleIsolation
    /\ IdleOrder
    /\ IdleEntry
    /\ IdleDimension
    /\ IdleTrend
    /\ IdleCountry
    /\ fsFn \in {"calculate", "generate"}
    /\ fsDimensions = << >>
    /\ fsResult = NoResult

\* dimensions[key] = value, for a new key
AddDimension(key, i) ==
    /\ fsResult = NoResult
    /\ key \notin Keys(fsDimensions)
    /\ Len(fsDimensions) < MaxEntries
    /\ fsDimensions' = ObjSet(fsDimensions, key, DimensionValue(fsFn, i))
    /\ UNCHANGED <<fsFn, fsResult, varsNormalize, varsDimension, varsTrend, varsCountry, varsEntry, varsOrder, varsIsolation, varsFetch, varsLatest>>

\* dimensions[mapping.dimension] = value, in the order of the mapping table
AddCanonicalDimension(i) ==
    /\ fsResult = NoResult
    /\ IsCanonicalPrefix(fsDimensions)
    /\ Len(fsDimensions) < Len(CanonicalKeys)
    /\ fsDimensions' = ObjSet(fsDimensions, CanonicalKeys[Len(fsDimensions) + 1],
                              DimensionValue(fsFn, i))
    /\ UNCHANGED <<fsFn, fsResult, varsNormalize, varsDimension, varsTrend, varsCountry, varsEntry, varsOrder, varsIsolation, varsFetch, varsLatest>>

CallCalculateFairnessScore ==
    /\ fsFn = "calculate"
    /\ fsResult = NoResult
    /\ fsResult' = <<calculateFairnessScore(fsDimensions)>>
    /\ UNCHANGED <<fsFn, fsDimensions, varsNormalize, varsDimension, varsTrend, varsCountry, varsEntry, varsOrder, varsIsolation, varsFetch, varsLatest>>

CallCalculateOverallScore ==
    /\ fsFn = "generate"
    /\ fsResult = NoResult
    /\ fsResult' = <<calculateOverallScore(fsDimensions)>>
    /\ UNCHANGED <<fsFn, fsDimensions, varsNormalize, varsDimension, varsTrend, varsCountry, varsEntry, varsOrder, varsIsolation, varsFetch, varsLatest>>

NextComposite ==
    \/ \E key \in CompositeKeys, i \in 0 .. NumLevels : AddDimension(key, i)
    \/ \E i \in {0, (NumLevels + 1) \div 2, NumLevels} : AddCanonicalDimension(i)
    \/ CallCalculateFairnessScore
    \/ CallCalculateOverallScore

SpecComposite == InitComposite /\ [][NextComposite]_vars

(***************************************************************************)
(* The composite on objects that hold the same entries in two orders.      *)
(***************************************************************************)
\* the keys of these objects, in the order of the mapping table
OrderKeys == <<"democraticVoice", "economicOpportunity", "consumerProtection">>

\* what the object holds for a dimension scored p points
OrderValue(fn, p) ==
    IF fn = "calculate"
    THEN [score |-> 100 * p, sources |-> << >>, confidence |-> "low"]
    ELSE 100 * p

OrderObjects(fn) ==
    { [i \in DOMAIN OrderKeys |-> <<OrderKeys[i], OrderValue(fn, points[i])>>] :
        points \in [DOMAIN OrderKeys -> 0 .. MaxOrderScore] }

KeyOrders(n) == { p \in [1 .. n -> 1 .. n] : \A i, j \in 1 .. n : p[i] = p[j] => i = j }

\* the entries of obj, stored in the order p
Reordered(obj, p) == [i \in DOMAIN obj |-> obj[p[i]]]

InitOrder ==
    /\ IdleNormalize
    /\ IdleLatest
    /\ IdleFetch
    /\ IdleIsolation
    /\ IdleEntry
    /\ IdleDimension
    /\ IdleComposite
    /\ IdleTrend
    /\ IdleCountry
    /\ koFn \in {"calculate", "generate"}
    /\ koDimensions \in OrderObjects(koFn)
    /\ koReordered = koDimensions
    /\ koYear = ClockYear
    /\ koCalls = << >>

\* a second object is built from the same entries, in another order
StoreReordered(p) ==
    /\ koCalls = << >>
    /\ koReordered = koDimensions
    /\ Reordered(koDimensions, p) # koDimensions
    /\ koReordered' = Reordered(koDimensions, p)
    /\ UNCHANGED <<koFn, koDimensions, koYear, koCalls,
                   varsNormalize, varsDimension, varsComposite, varsTrend, varsCountry, varsEntry, varsIsolation, varsFetch, varsLatest>>

\* the year turns
YearTurns ==
    /\ koYear = ClockYear
    /\ koYear' = ClockYear + 1
    /\ UNCHANGED <<koFn, koDimensions, koReordered, koCalls,
                   varsNormalize, varsDimension, varsComposite, varsTrend, varsCountry, varsEntry, varsIsolation, varsFetch, varsLatest>>

\* calculateFairnessScore(koDimensions), then calculateFairnessScore(koReordered)
CallFairnessScoreOnBoth ==
    /\ koFn = "calculate"
    /\ Len(koCalls) < MaxCalls
    /\ koCalls' = Append(koCalls, [ year      |-> koYear,
                                    stored    |-> dbl_calculateFairnessScore(koDimensions),
                                    reordered |-> dbl_calculateFairnessScore(koReordered) ])
    /\ UNCHANGED <<koFn, koDimensions, koReordered, koYear,
                   varsNormalize, varsDimension, varsComposite, varsTrend, varsCountry, varsEntry, varsIsolation, varsFetch, varsLatest>>

\* calculateOverallScore(koDimensions), then calculateOverallScore(koReordered)
CallOverallScoreOnBoth ==
    /\ koFn = "generate"
    /\ Len(koCalls) < MaxCalls
    /\ koCalls' = Append(koCalls, [ year      |-> koYear,
                                    stored    |-> dbl_calculateOverallScore(koDimensions),
                                    reordered |-> dbl_calculateOverallScore(koReordered) ])
    /\ UNCHANGED <<koFn, koDimensions, koReordered, koYear,
                   varsNormalize, varsDimension, varsComposite, varsTrend, varsCountry, varsEntry, varsIsolation, varsFetch, varsLatest>>

NextOrder ==
    \/ \E p \in KeyOrders(Len(OrderKeys)) : StoreReordered(p)
    \/ YearTurns
    \/ CallFairnessScoreOnBoth
    \/ CallOverallScoreOnBoth

SpecOrder == InitOrder /\ [][NextOrder]_vars

(***************************************************************************)
(* The trend on its own: a current score, a history of up to MaxHistory    *)
(* entries in any order (years around the target year, equal years         *)
(* included), and a clock that may turn between the two reads              *)
(***************************************************************************)
HistoryYears == (ClockYear - 5 - HistorySpan) .. (ClockYear - 5 + 1)

HistoryScores == {5000 + k * 250 : k \in -MaxDelta .. MaxDelta}

HistoryEntries == [year : HistoryYears, score : HistoryScores]

Histories ==
    UNION { [1 .. n -> HistoryEntries] : n \in 0 .. MaxHistory }

\* the years that the reads of the clock return in one call: the clock
\* turns to the next year before read number turnAt
ClockReads(reads, turnAt) ==
    [i \in 1 .. reads |-> IF i >= turnAt THEN ClockYear + 1 ELSE ClockYear]

InitTrend ==
    /\ IdleNormalize
    /\ IdleLatest
    /\ IdleFetch
    /\ IdleIsolation
    /\ IdleOrder
    /\ IdleEntry
    /\ IdleDimension
    /\ IdleComposite
    /\ IdleCountry
    /\ trCurrentScore \in {5000, 9000}
    /\ trHistoricalScores \in Histories
    /\ trYears = << >>
    /\ trResult = NoResult

CallCalculateTrend(turnAt) ==
    /\ trResult = NoResult
    /\ LET years == ClockReads(2, turnAt)
       IN  /\ trYears' = years
           /\ trResult' = <<calculateTrend(trCurrentScore, trHistoricalScores,
                                           years[1], years[2])>>
    /\ UNCHANGED <<trCurrentScore, trHistoricalScores,
                   varsNormalize, varsDimension, varsComposite, varsCountry, varsEntry, varsOrder, varsIsolation, varsFetch, varsLatest>>

NextTrend == \E turnAt \in 2 .. 3 : CallCalculateTrend(turnAt)

SpecTrend == InitTrend /\ [][NextTrend]_vars

(***************************************************************************)
(* A country end to end.  The data comes provider by provider (a           *)
(* provider's file holds all of its indicators); every data point is at    *)
(* the same step of its source's range.  calculate.ts: calculateCountry on *)
(* a rawData map; generate.ts: the scoring of one country on a             *)
(* sourceValues map                                                        *)
(***************************************************************************)
Providers ==
    << {"freedom_house_political"}, {"vdem_electoral", "vdem_media"},
       {"eiu_democracy"}, {"rsf_press_freedom"}, {"wjp_rule_of_law"},
       {"wgi_voice", "wgi_effectiveness"}, {"world_bank_gini"},
       {"wef_social_mobility"}, {"ituc_global_rights"},
       {"who_uhc", "who_out_of_pocket"}, {"numbeo_property"}, {"ti_cpi"},
       {"undp_gii"}, {"spi_personal_rights"} >>

gen_Providers ==
    << {"freedom_house_political", "freedom_house_civil", "freedom_house_total"},
       {"rsf_press_freedom"}, {"world_bank_gini"},
       {"wgi_voice", "wgi_effectiveness", "wgi_corruption"},
       {"who_uhc_index"}, {"transparency_cpi"}, {"ituc_gri"} >>

\* the sets of providers whose data a country has
Loadings(providers) ==
    { P \in SUBSET DOMAIN providers :
        \/ Cardinality(P) <= MaxLoaded
        \/ Cardinality(DOMAIN providers \ P) <= MaxMissing }

\* the sets of providers whose data is flagged estimated: no provider, one
\* provider, every provider
Estimations(providers) ==
    { {} } \cup { {i} : i \in DOMAIN providers } \cup {DOMAIN providers}

SourceIdsOf(providers, P) == UNION {providers[i] : i \in P}

DeclaredSources ==
    UNION { RangeOf(DIMENSION_SOURCES[i].sources) : i \in DOMAIN DIMENSION_SOURCES }

\* rawData of country Iso3 with the data points of the providers in P
CountryRawData(P, E, step) ==
    LET loaded == {s \in DeclaredSources : s.sourceId \in SourceIdsOf(Providers, P)}
    IN  [ key \in {DataKey(Iso3, s) : s \in loaded} |->
            LET s == CHOOSE t \in loaded : DataKey(Iso3, t) = key
            IN  [ value     |-> StepValue(SOURCE_CONFIGS[s.sourceId], step),
                  estimated |-> s.sourceId \in SourceIdsOf(Providers, E) ] ]

\* sourceValues of a country with the values of the providers in P
CountrySourceValues(P, step) ==
    [ sourceId \in SourceIdsOf(gen_Providers, P) |->
        StepValue(gen_SOURCE_CONFIGS[sourceId], step) ]

\* the country whose only data points are freedom_house_political = 40 and
\* rsf_press_freedom = 7.04
ScenarioRawData ==
    (Iso3 \o "_freedom_house_political" :> [value |-> 4000, estimated |-> FALSE])
        @@ (Iso3 \o "_rsf_press_freedom" :> [value |-> 704, estimated |-> FALSE])

ScenarioSourceValues ==
    ("freedom_house_political" :> 4000) @@ ("rsf_press_freedom" :> 704)

CountryHistories ==
    { << >>,
      <<[year |-> ClockYear - 5, score |-> 5000]>>,
      <<[year |-> ClockYear - 4, score |-> 5000]>> }

InitCountry ==
    /\ IdleNormalize
    /\ IdleLatest
    /\ IdleFetch
    /\ IdleIsolation
    /\ IdleOrder
    /\ IdleEntry
    /\ IdleDimension
    /\ IdleComposite
    /\ IdleTrend
    /\ cyFn \in {"calculate", "generate"}
    /\ IF cyFn = "calculate"
       THEN /\ \/ cyData = ScenarioRawData
               \/ \E P \in Loadings(Providers), E \in Estimations(Providers),
                     step \in 0 .. DimValueSteps :
                       cyData = CountryRawData(P, E \cap P, step)
            /\ cyHistory \in CountryHistories
       ELSE /\ \/ cyData = ScenarioSourceValues
               \/ \E P \in Loadings(gen_Providers), step \in 0 .. DimValueSteps :
                       cyData = CountrySourceValues(P, step)
            /\ cyHistory = << >>
    /\ cyYears = << >>
    /\ cyResult = NoResult

CallCalculateCountry(turnAt) ==
    /\ cyFn = "calculate"
    /\ cyResult = NoResult
    /\ LET years == ClockReads(3, turnAt)
       IN  /\ cyYears' = years
           /\ cyResult' = <<calculateCountry(Iso3, cyData, cyHistory, years)>>
    /\ UNCHANGED <<cyFn, cyData, cyHistory,
                   varsNormalize, varsDimension, varsComposite, varsTrend, varsEntry, varsOrder, varsIsolation, varsFetch, varsLatest>>

CallScoreCountry ==
    /\ cyFn = "generate"
    /\ cyResult = NoResult
    /\ cyResult' = <<gen_ScoreCountry(Iso3, cyData)>>
    /\ UNCHANGED <<cyFn, cyData, cyHistory, cyYears,
                   varsNormalize, varsDimension, varsComposite, varsTrend, varsEntry, varsOrder, varsIsolation, varsFetch, varsLatest>>

NextCountry ==
    \/ \E turnAt \in 2 .. 4 : CallCalculateCountry(turnAt)
    \/ CallScoreCountry

SpecCountry == InitCountry /\ [][NextCountry]_vars

(***************************************************************************)
(* calculateCountry on two rawData maps that hold the same data points for *)
(* one country and different ones for another                              *)
(***************************************************************************)
OtherIso3 == "SWE"

\* the data points of country iso3 for the providers in P, those of the
\* providers in E flagged estimated
RawDataOfCountry(iso3, P, E, step) ==
    LET loaded == {s \in DeclaredSources : s.sourceId \in SourceIdsOf(Providers, P)}
    IN  [ key \in {DataKey(iso3, s) : s \in loaded} |->
            LET s == CHOOSE t \in loaded : DataKey(iso3, t) = key
            IN  [ value     |-> StepValue(SOURCE_CONFIGS[s.sourceId], step),
                  estimated |-> s.sourceId \in SourceIdsOf(Providers, E) ] ]

\* the data of the country looked at: of no provider, one provider or
\* every provider, all of it measured or all of it estimated
OwnData ==
    { RawDataOfCountry(Iso3, P, E, step) :
        P \in Estimations(Providers), E \in {{}, DOMAIN Providers},
        step \in 0 .. DimValueSteps }

\* the data of the other country
OtherData ==
    { RawDataOfCountry(OtherIso3, {}, {}, 0),
      RawDataOfCountry(OtherIso3, {1}, {}, 0),
      RawDataOfCountry(OtherIso3, DOMAIN Providers, {}, DimValueSteps) }

InitIsolation ==
    /\ IdleNormalize
    /\ IdleLatest
    /\ IdleFetch
    /\ IdleOrder
    /\ IdleEntry
    /\ IdleDimension
    /\ IdleComposite
    /\ IdleTrend
    /\ IdleCountry
    /\ \E own \in OwnData, a \in OtherData, b \in OtherData :
          /\ xcData = own @@ a
          /\ xcTwin = own @@ b
    /\ xcHistory \in CountryHistories
    /\ xcEarlier = << >>
    /\ xcYears = << >>
    /\ xcResult = NoResult

\* calculateCountry for the other country, on xcTwin
CallCalculateOther(turnAt) ==
    /\ xcResult = NoResult
    /\ Len(xcEarlier) < MaxEarlier
    /\ xcEarlier' = Append(xcEarlier,
                           calculateCountry(OtherIso3, xcTwin, xcHistory,
                                            ClockReads(3, turnAt)))
    /\ UNCHANGED <<xcData, xcTwin, xcHistory, xcYears, xcResult,
                   varsNormalize, varsDimension, varsComposite, varsTrend, varsCountry,
                   varsEntry, varsOrder, varsFetch, varsLatest>>

\* calculateCountry for country Iso3 on xcData and on xcTwin, at the same
\* readings of the clock
CallCalculateOnBoth(turnAt) ==
    /\ xcResult = NoResult
    /\ LET years == ClockReads(3, turnAt)
       IN  /\ xcYears' = years
           /\ xcResult' = <<[ data |-> calculateCountry(Iso3, xcData, xcHistory, years),
                              twin |-> calculateCountry(Iso3, xcTwin, xcHistory, years) ]>>
    /\ UNCHANGED <<xcData, xcTwin, xcHistory, xcEarlier,
                   varsNormalize, varsDimension, varsComposite, varsTrend, varsCountry,
                   varsEntry, varsOrder, varsFetch, varsLatest>>

NextIsolation ==
    \/ \E turnAt \in 2 .. 4 : CallCalculateOther(turnAt)
    \/ \E turnAt \in 2 .. 4 : CallCalculateOnBoth(turnAt)

SpecIsolation == InitIsolation /\ [][NextIsolation]_vars

(***************************************************************************)
(* fetch-all.ts: main, and fetchAllIndicators of fetch/world-bank.ts.  A   *)
(* step of the model is what runs between two awaits; a fetch, a write     *)
(* either succeeds or throws (a rejected promise, a response that is not   *)
(* ok, a failed write).                                                    *)
(***************************************************************************)
INDICATORS == <<"SI.POV.GINI", "VA.EST", "GE.EST", "CC.EST", "RL.EST", "RQ.EST">>

\* where main goes on after a try block whose body ended with outcome: the
\* catch clause reports and main goes on with the next statement
\* (the mutant lets the failure out of main)
AfterTry_propagate(outcome, next) == IF outcome = "ok" THEN next ELSE "failed"

AfterTry(outcome, next) == next

\* catch (error) { console.error(message, error) }
Report(log, outcome, message) ==
    IF outcome = "ok" THEN log ELSE Append(log, message)

\* what a save function has written when it ends with outcome: the raw
\* file, then the processed file
Written(outcome, rawFile, processedFile) ==
    IF outcome = "ok" THEN {rawFile, processedFile}
    ELSE IF outcome = "processed write throws" THEN {rawFile}
    ELSE {}

Noted(failures, outcome, step) ==
    IF outcome = "ok" THEN failures ELSE Append(failures, step)

InitFetch ==
    /\ IdleNormalize
    /\ IdleLatest
    /\ IdleOrder
    /\ IdleEntry
    /\ IdleDimension
    /\ IdleComposite
    /\ IdleTrend
    /\ IdleCountry
    /\ IdleIsolation
    /\ faPc = "start"
    /\ faIndicator = 0
    /\ faResults = << >>
    /\ faRan = << >>
    /\ faLog = << >>
    /\ faFiles = {}
    /\ faFailures = << >>

\* main up to its first await: fetchWorldBank() is called and runs up to
\* the fetch of the first indicator
MainStart ==
    /\ faPc = "start"
    /\ faPc' = "worldBank"
    /\ faRan' = Append(faRan, "worldBank")
    /\ faIndicator' = 1
    /\ UNCHANGED <<faResults, faLog, faFiles, faFailures,
                   varsNormalize, varsDimension, varsComposite, varsTrend, varsCountry,
                   varsEntry, varsOrder, varsIsolation, varsLatest>>

\* one pass of fetchAllIndicators' loop: fetchIndicator(code) returns, or it
\* throws and the loop's catch clause reports it
FetchIndicator(outcome) ==
    /\ faPc = "worldBank"
    /\ faIndicator \in DOMAIN INDICATORS
    /\ faResults' = IF outcome = "ok" THEN Append(faResults, INDICATORS[faIndicator])
                    ELSE faResults
    /\ faLog' = Report(faLog, outcome, "Error fetching " \o INDICATORS[faIndicator])
    /\ faFailures' = Noted(faFailures, outcome, INDICATORS[faIndicator])
    /\ faIndicator' = faIndicator + 1
    /\ UNCHANGED <<faPc, faRan, faFiles,
                   varsNormalize, varsDimension, varsComposite, varsTrend, varsCountry,
                   varsEntry, varsOrder, varsIsolation, varsLatest>>

\* the end of fetchAllIndicators, the write of world-bank.json, and main up
\* to the call of saveFreedomHouseData
SaveWorldBank(outcome) ==
    /\ faPc = "worldBank"
    /\ faIndicator = Len(INDICATORS) + 1
    /\ faFiles' = faFiles \cup (IF outcome = "ok" THEN {"raw/world-bank.json"} ELSE {})
    /\ faLog' = Report(faLog, outcome, "World Bank fetch failed")
    /\ faFailures' = Noted(faFailures, outcome, "worldBank")
    /\ faPc' = AfterTry(outcome, "freedomHouse")
    /\ faRan' = IF faPc' = "freedomHouse" THEN Append(faRan, "freedomHouse") ELSE faRan
    /\ UNCHANGED <<faIndicator, faResults,
                   varsNormalize, varsDimension, varsComposite, varsTrend, varsCountry,
                   varsEntry, varsOrder, varsIsolation, varsLatest>>

\* saveFreedomHouseData() in its try block, and main up to the call of
\* saveRSFData
SaveFreedomHouse(outcome) ==
    /\ faPc = "freedomHouse"
    /\ faFiles' = faFiles \cup Written(outcome, "raw/freedom-house-2024.json",
                                       "processed/freedom-house.json")
    /\ faLog' = Report(faLog, outcome, "Freedom House processing failed")
    /\ faFailures' = Noted(faFailures, outcome, "freedomHouse")
    /\ faPc' = AfterTry(outcome, "rsf")
    /\ faRan' = IF faPc' = "rsf" THEN Append(faRan, "rsf") ELSE faRan
    /\ UNCHANGED <<faIndicator, faResults,
                   varsNormalize, varsDimension, varsComposite, varsTrend, varsCountry,
                   varsEntry, varsOrder, varsIsolation, varsLatest>>

\* saveRSFData() in its try block, and main to its end: the completion
\* message
SaveRSF(outcome) ==
    /\ faPc = "rsf"
    /\ faFiles' = faFiles \cup Written(outcome, "raw/rsf-2024.json",
                                       "processed/rsf-press-freedom.json")
    /\ faLog' = Report(faLog, outcome, "RSF processing failed")
    /\ faFailures' = Noted(faFailures, outcome, "rsf")
    /\ faPc' = AfterTry(outcome, "complete")
    /\ UNCHANGED <<faIndicator, faResults, faRan,
                   varsNormalize, varsDimension, varsComposite, varsTrend, varsCountry,
                   varsEntry, varsOrder, varsIsolation, varsLatest>>

SaveOutcomes == {"ok", "raw write throws", "processed write throws"}

NextFetch ==
    \/ MainStart
    \/ \E outcome \in {"ok", "throws"} : FetchIndicator(outcome)
    \/ \E outcome \in {"ok", "throws"} : SaveWorldBank(outcome)
    \/ \E outcome \in SaveOutcomes : SaveFreedomHouse(outcome)
    \/ \E outcome \in SaveOutcomes : SaveRSF(outcome)

\* every fetch and every timer settles, and the event loop then resumes main
SpecFetch == InitFetch /\ [][NextFetch]_vars /\ WF_vars(NextFetch)

(***************************************************************************)
(* getLatestValue of fetch/world-bank.ts: the latest observation of each   *)
(* country in an indicator's response.  A string is the sequence of its    *)
(* characters; a Number that may be NaN is held as <<n>>, NaN as << >>; a  *)
(* value that may be null is held as <<v>>, null as << >>; the Map is the  *)
(* function from its keys to its values                                    *)
(***************************************************************************)
DecimalDigits == <<"0", "1", "2", "3", "4", "5", "6", "7", "8", "9">>

IsDigit(ch) == \E d \in DOMAIN DecimalDigits : DecimalDigits[d] = ch
DigitValue(ch) == (CHOOSE d \in DOMAIN DecimalDigits : DecimalDigits[d] = ch) - 1

\* parseInt(string): the number the leading decimal digits spell, whatever
\* follows them, NaN when the string does not start with a digit (leading
\* white space and a sign, which parseInt accepts, are in none of the
\* strings here)
RECURSIVE ParseIntFrom(_, _, _)
ParseIntFrom(string, i, n) ==
    IF i > Len(string) \/ ~IsDigit(string[i])
    THEN IF i = 1 THEN << >> ELSE <<n>>
    ELSE ParseIntFrom(string, i + 1, 10 * n + DigitValue(string[i]))

parseInt(string) == ParseIntFrom(string, 1, 0)

\* a > b on Numbers: false when either is NaN
NumberGreater(a, b) == a # << >> /\ b # << >> /\ a[1] > b[1]

\* variant of LatestStep that lets an observation of the same year replace
\* the one held: year >= existing.year
LatestStep_sameYearReplaces(latestByCountry, point) ==
    IF point.value = << >> \/ point.countryiso3code = "" THEN latestByCountry
    ELSE LET year == parseInt(point.date)
             code == point.countryiso3code
         IN  IF \/ code \notin DOMAIN latestByCountry
                \/ ~NumberGreater(latestByCountry[code].year, year)
             THEN (code :> [value |-> point.value[1], year |-> year]) @@ latestByCountry
             ELSE latestByCountry

\* one pass of getLatestValue's loop (lines 73-85)
LatestStep(latestByCountry, point) ==
    \* point.value === null || !point.countryiso3code: continue
    IF point.value = << >> \/ point.countryiso3code = "" THEN latestByCountry
    ELSE LET year == parseInt(point.date)
             code == point.countryiso3code
         IN  \* !existing || year > existing.year
             IF \/ code \notin DOMAIN latestByCountry
                \/ NumberGreater(year, latestByCountry[code].year)
             THEN (code :> [value |-> point.value[1], year |-> year]) @@ latestByCountry
             ELSE latestByCountry

RECURSIVE LatestLoop(_, _)
LatestLoop(latestByCountry, dataPoints) ==
    IF dataPoints = << >> THEN latestByCountry
    ELSE LatestLoop(LatestStep(latestByCountry, Head(dataPoints)), Tail(dataPoints))

getLatestValue(dataPoints) == LatestLoop(<< >>, dataPoints)

\* fetchIndicator asks for the years year - 5 .. year, year = 2023
DefaultYear == 2023

ResponseYears == DefaultYear - NumYears + 1 .. DefaultYear

\* the date of an annual observation: the four digits of its year
DateOf(year) ==
    << DecimalDigits[((year \div 1000) % 10) + 1],
       DecimalDigits[((year \div 100) % 10) + 1],
       DecimalDigits[((year \div 10) % 10) + 1],
       DecimalDigits[(year % 10) + 1] >>

\* the countryiso3code of a data point: a country, or empty for an aggregate
ResponseCodes == {"", Iso3, OtherIso3}

\* the response of the given shape: any code and year, with a null value
\* or the value (k - 1) / 2 for the k-th data point
ResponseOf(shape) ==
    [k \in DOMAIN shape |->
        [ countryiso3code |-> shape[k][1],
          date            |-> DateOf(shape[k][2]),
          value           |-> IF shape[k][3] THEN <<(k - 1) * 50>> ELSE << >> ]]

InitLatest ==
    /\ IdleNormalize
    /\ IdleDimension
    /\ IdleComposite
    /\ IdleTrend
    /\ IdleCountry
    /\ IdleEntry
    /\ IdleOrder
    /\ IdleIsolation
    /\ IdleFetch
    \* a response holds at most MaxPoints data points
    /\ \E n \in 0 .. MaxPoints :
          \E shape \in [1 .. n -> ResponseCodes \X ResponseYears \X BOOLEAN] :
              lvPoints = ResponseOf(shape)
    /\ lvResult = NoResult

CallGetLatestValue ==
    /\ lvResult = NoResult
    /\ lvResult' = <<getLatestValue(lvPoints)>>
    /\ UNCHANGED <<lvPoints, varsNormalize, varsDimension, varsComposite, varsTrend,
                   varsCountry, varsEntry, varsOrder, varsIsolation, varsFetch>>

NextLatest == CallGetLatestValue

SpecLatest == InitLatest /\ [][NextLatest]_vars

(***************************************************************************)
(* The entry points: main of calculate.ts and generateScores of            *)
(* generate.ts, step by step, under a DIMENSION_WEIGHTS table in which one *)
(* weight may have been changed.  The console output is not modelled       *)
(***************************************************************************)
\* the file's table with the weight of dimension d changed by shift / 10000
ShiftedWeights(table, d, shift) ==
    [x \in DOMAIN table |-> IF x = d THEN 100 * table[x] + shift ELSE 100 * table[x]]

WeightTables(table) ==
    { ShiftedWeights(table, d, 5 * k) :
        d \in DOMAIN table, k \in -MaxWeightShift .. MaxWeightShift }

\* what the processed data holds for one country
ProcessedValues ==
    { CountrySourceValues(P, step) :
        P \in {DOMAIN gen_Providers, {1}}, step \in {0, DimValueSteps} }

ProcessedCountries == COUNTRY_METADATA_KEYS \cup {"ATA"}

\* the maps that loadProcessedData can return: distinct countries, in the
\* order of their first data point
ProcessedData ==
    { data \in UNION { [1 .. n -> ProcessedCountries \X ProcessedValues] :
                         n \in 0 .. MaxCountries } :
        \A i, j \in DOMAIN data : i # j => data[i][1] # data[j][1] }

InitEntry ==
    /\ IdleNormalize
    /\ IdleLatest
    /\ IdleFetch
    /\ IdleIsolation
    /\ IdleOrder
    /\ IdleDimension
    /\ IdleComposite
    /\ IdleTrend
    /\ IdleCountry
    /\ epEntry \in {"main", "generateScores"}
    /\ IF epEntry = "main"
       THEN /\ epWeights \in WeightTables(DIMENSION_WEIGHTS)
            /\ epValidateOnly \in BOOLEAN
            /\ epProcessed = << >>
       ELSE /\ epWeights \in WeightTables(gen_DIMENSION_WEIGHTS)
            /\ epValidateOnly = FALSE
            /\ epProcessed \in {<< >>} \cup {<<data>> : data \in ProcessedData}
    /\ epPc = "start"
    /\ epLoaded = FALSE
    /\ epCountryData = << >>
    /\ epNext = 0
    /\ epResults = << >>
    /\ epOutput = << >>

\* main: the weights are summed and checked; process.exit(1) if they fail
MainValidateWeights ==
    /\ epEntry = "main"
    /\ epPc = "start"
    /\ epPc' = IF WeightsRejected(epWeights) THEN "exited" ELSE "validated"
    /\ UNCHANGED <<epEntry, epWeights, epValidateOnly, epProcessed, epLoaded,
                   epCountryData, epNext, epResults, epOutput,
                   varsNormalize, varsDimension, varsComposite, varsTrend, varsCountry, varsOrder, varsIsolation, varsFetch, varsLatest>>

\* main: with --validate it returns after the validation
MainValidateOnly ==
    /\ epEntry = "main"
    /\ epPc = "validated"
    /\ epValidateOnly
    /\ epPc' = "returned"
    /\ UNCHANGED <<epEntry, epWeights, epValidateOnly, epProcessed, epLoaded,
                   epCountryData, epNext, epResults, epOutput,
                   varsNormalize, varsDimension, varsComposite, varsTrend, varsCountry, varsOrder, varsIsolation, varsFetch, varsLatest>>

\* main: the raw data is loaded; with none it returns, else it ends with
\* "Calculation complete" (it scores no country)
MainLoadRawData ==
    /\ epEntry = "main"
    /\ epPc = "validated"
    /\ ~epValidateOnly
    /\ epLoaded' = TRUE
    /\ epCountryData' = loadRawData
    /\ epPc' = IF Len(loadRawData) = 0 THEN "returned" ELSE "complete"
    /\ UNCHANGED <<epEntry, epWeights, epValidateOnly, epProcessed,
                   epNext, epResults, epOutput,
                   varsNormalize, varsDimension, varsComposite, varsTrend, varsCountry, varsOrder, varsIsolation, varsFetch, varsLatest>>

\* generateScores: without the processed-data directory it returns
GenCheckProcessedDir ==
    /\ epEntry = "generateScores"
    /\ epPc = "start"
    /\ epPc' = IF epProcessed = << >> THEN "returned" ELSE "checked"
    /\ UNCHANGED <<epEntry, epWeights, epValidateOnly, epProcessed, epLoaded,
                   epCountryData, epNext, epResults, epOutput,
                   varsNormalize, varsDimension, varsComposite, varsTrend, varsCountry, varsOrder, varsIsolation, varsFetch, varsLatest>>

\* generateScores: countryData = loadProcessedData()
GenLoadProcessedData ==
    /\ epEntry = "generateScores"
    /\ epPc = "checked"
    /\ epLoaded' = TRUE
    /\ epCountryData' = epProcessed[1]
    /\ epNext' = 1
    /\ epPc' = "scoring"
    /\ UNCHANGED <<epEntry, epWeights, epValidateOnly, epProcessed,
                   epResults, epOutput,
                   varsNormalize, varsDimension, varsComposite, varsTrend, varsCountry, varsOrder, varsIsolation, varsFetch, varsLatest>>

\* generateScores: one pass of the loop over countryData: a country without
\* metadata is skipped, any other is scored and pushed to the results
GenScoreCountry ==
    /\ epEntry = "generateScores"
    /\ epPc = "scoring"
    /\ epNext <= Len(epCountryData)
    /\ LET iso3         == epCountryData[epNext][1]
           sourceValues == epCountryData[epNext][2]
       IN  epResults' = IF iso3 \notin COUNTRY_METADATA_KEYS THEN epResults
                        ELSE Append(epResults,
                                    gen_ScoreCountryUnder(epWeights, iso3, sourceValues))
    /\ epNext' = epNext + 1
    /\ UNCHANGED <<epEntry, epWeights, epValidateOnly, epProcessed, epLoaded,
                   epCountryData, epPc, epOutput,
                   varsNormalize, varsDimension, varsComposite, varsTrend, varsCountry, varsOrder, varsIsolation, varsFetch, varsLatest>>

\* generateScores: after the loop the results are sorted by score and
\* written to the output files
GenWriteResults ==
    /\ epEntry = "generateScores"
    /\ epPc = "scoring"
    /\ epNext > Len(epCountryData)
    /\ epResults' = SortByScoreDesc(epResults)
    /\ epOutput' = <<SortByScoreDesc(epResults)>>
    /\ epPc' = "returned"
    /\ UNCHANGED <<epEntry, epWeights, epValidateOnly, epProcessed, epLoaded,
                   epCountryData, epNext,
                   varsNormalize, varsDimension, varsComposite, varsTrend, varsCountry, varsOrder, varsIsolation, varsFetch, varsLatest>>

NextEntry ==
    \/ MainValidateWeights
    \/ MainValidateOnly
    \/ MainLoadRawData
    \/ GenCheckProcessedDir
    \/ GenLoadProcessedData
    \/ GenScoreCountry
    \/ GenWriteResults

SpecEntry == InitEntry /\ [][NextEntry]_vars

(***************************************************************************)
(* What the aggregator's input holds, for stating the claims               *)
(***************************************************************************)
RECURSIVE SumOver(_, _)
SumOver(f, S) ==
    IF S = {} THEN 0
    ELSE LET x == CHOOSE y \in S : TRUE IN f[x] + SumOver(f, S \ {x})

Abs(x) == IF x < 0 THEN -x ELSE x

\* score is num / den rounded to a multiple of unit, a half going up
IsRounded(score, num, den, unit) ==
    /\ score % unit = 0
    /\ 2 * (score * den - num) <= unit * den
    /\ 2 * (score * den - num) > -(unit * den)

DimensionReturned == Returned(dsResult)
DimensionScored == Returned(dsResult) /\ ~IsError(ValueOf(dsResult))

\* calculate.ts: the declared sources of dsDimension that have a data point
DsSources == MappingIn(DIMENSION_SOURCES, dsDimension).sources
DsPresent == {i \in DOMAIN DsSources : DataKey(Iso3, DsSources[i]) \in DOMAIN dsData}
DsPoint(i) == dsData[DataKey(Iso3, DsSources[i])]
DsPresentWeight == SumOver([i \in DsPresent |-> DsSources[i].weight], DsPresent)
DsWeightedValues ==
    SumOver([i \in DsPresent |->
                normalizeValue(DsPoint(i).value, SOURCE_CONFIGS[DsSources[i].sourceId])
                    * DsSources[i].weight], DsPresent)
DsEstimated == Cardinality({i \in DsPresent : DsPoint(i).estimated})

\* generate.ts: the declared sources of dimension d that have a value
GenSources(d) == MappingIn(DIMENSION_MAPPINGS, d).sources
GenPresent(d) == {i \in DOMAIN GenSources(d) : GenSources(d)[i].sourceId \in DOMAIN dsData}
GenPresentWeight(d) ==
    SumOver([i \in GenPresent(d) |-> GenSources(d)[i].weight], GenPresent(d))
GenWeightedValues(d) ==
    SumOver([i \in GenPresent(d) |->
                gen_normalizeValue(dsData[GenSources(d)[i].sourceId],
                                   gen_SOURCE_CONFIGS[GenSources(d)[i].sourceId])
                    * GenSources(d)[i].weight], GenPresent(d))

\* C1: missing-source redistribution.  For every dimension and every non-empty
\* subset of its declared sources that has data, the dimension score is the
\* weighted mean of the normalized values of the present sources only, divided
\* by the sum of the weights of the present sources only, rounded to one decimal
\* (calculate.ts) or to an integer (generate.ts); an absent source adds nothing
\* to the sum and nothing to the denominator.
C1_MissingSourceRedistribution ==
    DimensionScored =>
        IF dsFn = "calculate"
        THEN DsPresent # {} =>
                IsRounded(ValueOf(dsResult).score, DsWeightedValues, DsPresentWeight, 10)
        ELSE \A d \in DimensionNames :
                GenPresent(d) # {} =>
                    IsRounded(Get(ValueOf(dsResult), d), GenWeightedValues(d),
                              GenPresentWeight(d), 100)

\* C1 witness: calculateDimensionScore has scored a dimension of which only one
\* of several declared sources has data, and the score is that source's
\* normalized value, 100, undiluted
C1_Witness ==
    /\ DimensionScored
    /\ dsFn = "calculate"
    /\ Len(DsSources) > 1
    /\ Cardinality(DsPresent) = 1
    /\ DsPresentWeight = 40
    /\ ValueOf(dsResult).score = 10000

\* C2: no-data default.  A dimension for which no declared source has a data
\* point scores exactly 50, in calculateDimensionScore (calculate.ts) and in
\* calculateDimensionScores (generate.ts).
C2_NoDataDefault ==
    DimensionScored =>
        IF dsFn = "calculate"
        THEN DsPresent = {} => ValueOf(dsResult).score = 5000
        ELSE \A d \in DimensionNames :
                GenPresent(d) = {} => Get(ValueOf(dsResult), d) = 5000

\* C2 witness: generate.ts has scored a dimension with no data
C2_Witness ==
    /\ DimensionScored
    /\ dsFn = "generate"
    /\ \E d \in DimensionNames : GenPresent(d) = {} /\ Get(ValueOf(dsResult), d) = 5000

\* C5: dimension confidence is a cascade: 'low' if the total present weight is
\* < 0.5 or more than half of the contributing sources are estimated; otherwise
\* 'medium' if the total present weight is < 0.8 or at least one contributing
\* source is estimated; otherwise 'high'.  Exactly one grade results.
C5_ConfidenceCascade ==
    (DimensionScored /\ dsFn = "calculate") =>
        LET lowCond    == DsPresentWeight < 50 \/ 2 * DsEstimated > Cardinality(DsPresent)
            mediumCond == DsPresentWeight < 80 \/ DsEstimated > 0
            confidence == ValueOf(dsResult).confidence
        IN  /\ confidence \in {"low", "medium", "high"}
            /\ (confidence = "low") <=> lowCond
            /\ (confidence = "medium") <=> (~lowCond /\ mediumCond)
            /\ (confidence = "high") <=> (~lowCond /\ ~mediumCond)

\* C5 witness: all the weight present, one of three sources estimated: not low
\* (one is not more than half of three), medium by the estimate
C5_Witness ==
    /\ DimensionScored
    /\ dsFn = "calculate"
    /\ DsPresentWeight = 100
    /\ DsEstimated = 1
    /\ Cardinality(DsPresent) = 3
    /\ ValueOf(dsResult).confidence = "medium"

CompositeReturned == Returned(fsResult)

\* the score an entry of the dimensions object holds
FsScore(i) == IF fsFn = "calculate" THEN fsDimensions[i][2].score ELSE fsDimensions[i][2]
\* the entries whose key is a key of the weight table
FsWeighted == {i \in DOMAIN fsDimensions : fsDimensions[i][1] \in DOMAIN DIMENSION_WEIGHTS}
FsWeightSum == SumOver([i \in FsWeighted |-> DIMENSION_WEIGHTS[fsDimensions[i][1]]], FsWeighted)
FsWeightedScores ==
    SumOver([i \in FsWeighted |-> FsScore(i) * DIMENSION_WEIGHTS[fsDimensions[i][1]]],
            FsWeighted)

\* C4: calculateFairnessScore returns round(sum of score x canonical weight /
\* sum of the canonical weights of the keys present), a key absent from
\* DIMENSION_WEIGHTS changing neither numerator nor denominator; for dimension
\* scores in [0, 100] the result is an integer in [0, 100].
C4_CompositeScore ==
    (CompositeReturned /\ fsFn = "calculate") =>
        /\ FsWeightSum > 0 =>
                IsRounded(ValueOf(fsResult), FsWeightedScores, FsWeightSum, 100)
        /\ ValueOf(fsResult) % 100 = 0
        /\ 0 <= ValueOf(fsResult) /\ ValueOf(fsResult) <= 10000

\* C4 witness: the composite of a canonical key and a key that is no dimension
\* is the canonical key's score
C4_Witness ==
    /\ CompositeReturned
    /\ fsFn = "calculate"
    /\ Keys(fsDimensions) = {"democraticVoice", UnknownDimension}
    /\ Get(fsDimensions, "democraticVoice").score = 10000
    /\ Get(fsDimensions, UnknownDimension).score = 0
    /\ ValueOf(fsResult) = 10000

NormalizeReturned == Returned(nvResult)

\* C3: for every raw value, inside or outside the declared range, and every
\* config with min < max, inverted or not, normalizeValue (calculate.ts and
\* generate.ts) returns a number in [0, 100].
C3_NormalizationRange ==
    NormalizeReturned => (0 <= ValueOf(nvResult) /\ ValueOf(nvResult) <= 10000)

\* C3 witness: calculate.ts has normalized a value above the range of an
\* inverted config, to 0
C3_Witness ==
    /\ NormalizeReturned
    /\ nvFn = "calculate"
    /\ nvValue > nvConfig.inputRange[2]
    /\ nvConfig.invert
    /\ ValueOf(nvResult) = 0

(***************************************************************************)
(* calculateTrend                                                          *)
(***************************************************************************)
TrendReturned == Returned(trResult)
TrResult == ValueOf(trResult)

\* the entries old enough at the first read of the clock
TrEligible ==
    {i \in DOMAIN trHistoricalScores : trHistoricalScores[i].year <= trYears[1] - 5}

\* those of them with the greatest year
TrLatest ==
    {i \in TrEligible :
        \A j \in TrEligible : trHistoricalScores[j].year <= trHistoricalScores[i].year}

\* the change against entry i, clamped
TrChangeAgainst(i) ==
    LET raw == trCurrentScore - trHistoricalScores[i].score
        r   == CHOOSE c \in -100 .. 100 : IsRounded(100 * c, raw, 1, 100)
    IN  IF r > 15 THEN 15 ELSE IF r < -15 THEN -15 ELSE r

\* C6: calculateTrend compares against an entry with the greatest year that
\* is <= (current year - 5), the current year being what the clock shows
\* when the code reads it, and reports yearsCompared = current year - that
\* entry's year, which is at least 5; with an empty list, or every entry
\* newer than the target year, it returns stable, 0, 0
C6_TrendSelection ==
    TrendReturned =>
        IF TrEligible = {}
        THEN TrResult = [direction |-> "stable", change |-> 0, yearsCompared |-> 0]
        ELSE /\ \E i \in TrLatest :
                    /\ TrResult.yearsCompared = trYears[2] - trHistoricalScores[i].year
                    /\ TrResult.change = TrChangeAgainst(i)
             /\ TrResult.yearsCompared >= 5

\* a history whose entries are newer than, at and older than the target
\* year, compared against the one at the target year
C6_Witness ==
    /\ TrendReturned
    /\ Len(trHistoricalScores) = 2
    /\ trHistoricalScores[1].year < trHistoricalScores[2].year
    /\ trHistoricalScores[2].year = trYears[1] - 5
    /\ trHistoricalScores[1].score # trHistoricalScores[2].score
    /\ TrResult.yearsCompared = 5
    /\ TrResult.change = TrChangeAgainst(2)
    /\ TrResult.change # TrChangeAgainst(1)

\* C7: when an entry is selected, change is round(currentScore - selected
\* score) clamped into [-15, 15], and direction is improving iff change >= 3,
\* declining iff change <= -3, stable otherwise
C7_TrendCapping ==
    (TrendReturned /\ TrEligible # {}) =>
        /\ \E i \in TrLatest : TrResult.change = TrChangeAgainst(i)
        /\ TrResult.change \in -15 .. 15
        /\ (TrResult.direction = "improving") <=> (TrResult.change >= 3)
        /\ (TrResult.direction = "declining") <=> (TrResult.change <= -3)
        /\ (TrResult.direction = "stable") <=> (TrResult.change \in -2 .. 2)

\* current 90 against 50 five years before: +40 is capped to +15, improving
C7_Witness ==
    /\ TrendReturned
    /\ trCurrentScore = 9000
    /\ trHistoricalScores = <<[year |-> trYears[1] - 5, score |-> 5000]>>
    /\ TrResult.change = 15
    /\ TrResult.direction = "improving"

(***************************************************************************)
(* calculateCountry and the scoring of one country in generate.ts          *)
(***************************************************************************)
CountryReturned == Returned(cyResult)
CyResult == ValueOf(cyResult)
CyScored == CountryReturned /\ ~IsError(CyResult)

\* the score held for a dimension: a DimensionScore's (calculate.ts), the
\* number itself (generate.ts)
CyScoreOf(entry) == IF cyFn = "calculate" THEN entry[2].score ELSE entry[2]

CyLowCount ==
    Cardinality({i \in DOMAIN CyResult.dimensions :
                    CyResult.dimensions[i][2].confidence = "low"})

\* C8: for a country with no data point for any declared source,
\* calculateCountry returns a full result without raising, in which every
\* one of the ten dimensions has score 50, the composite is 50 and
\* sourcesUsed is 0
C8_NoDataCountry ==
    (cyFn = "calculate" /\ CountryReturned /\ DOMAIN cyData = {}) =>
        /\ ~IsError(CyResult)
        /\ Keys(CyResult.dimensions) = DOMAIN DIMENSION_WEIGHTS
        /\ \A i \in DOMAIN CyResult.dimensions : CyScoreOf(CyResult.dimensions[i]) = 5000
        /\ CyResult.fairnessScore = 5000
        /\ CyResult.metadata.sourcesUsed = 0

\* the no-data country as calculateCountry scores it: ten dimensions at 0,
\* composite 0, no source used
C8_Witness ==
    /\ cyFn = "calculate"
    /\ CountryReturned
    /\ DOMAIN cyData = {}
    /\ ~IsError(CyResult)
    /\ Len(CyResult.dimensions) = 10
    /\ \A i \in DOMAIN CyResult.dimensions : CyScoreOf(CyResult.dimensions[i]) = 0
    /\ CyResult.fairnessScore = 0
    /\ CyResult.metadata.sourcesUsed = 0

\* C9: the dimension map of every result of calculateCountry, and of
\* calculateDimensionScores in generate.ts, has exactly the ten canonical
\* keys, the keys of DIMENSION_WEIGHTS, each once, for every input, the
\* country with no data included; so the weights of its keys sum to 1.0
C9_CanonicalKeys ==
    CountryReturned =>
        LET weights == IF cyFn = "calculate" THEN DIMENSION_WEIGHTS
                       ELSE gen_DIMENSION_WEIGHTS
        IN  /\ ~IsError(CyResult)
            /\ Keys(CyResult.dimensions) = DOMAIN weights
            /\ Len(CyResult.dimensions) = Cardinality(DOMAIN weights)
            /\ Cardinality(DOMAIN weights) = 10
            /\ SumOver([key \in Keys(CyResult.dimensions) |-> weights[key]],
                       Keys(CyResult.dimensions)) = 100

\* the country with no data, scored by calculateCountry: ten keys
C9_Witness ==
    /\ cyFn = "calculate"
    /\ CountryReturned
    /\ DOMAIN cyData = {}
    /\ Cardinality(Keys(CyResult.dimensions)) = 10
    /\ \A i \in DOMAIN CyResult.dimensions : CyResult.dimensions[i][2].sources = << >>

\* C10: the overall confidence is low if more than 3 of the dimensions are
\* graded low, medium if 1 to 3 are, high if none is; dimensions graded
\* medium do not count
C10_OverallConfidence ==
    (cyFn = "calculate" /\ CyScored) =>
        /\ CyLowCount > 3 => CyResult.metadata.confidence = "low"
        /\ CyLowCount \in 1 .. 3 => CyResult.metadata.confidence = "medium"
        /\ CyLowCount = 0 => CyResult.metadata.confidence = "high"

\* three dimensions graded low and others graded medium: overall medium
C10_Witness ==
    /\ cyFn = "calculate"
    /\ CyScored
    /\ CyLowCount = 3
    /\ \E i \in DOMAIN CyResult.dimensions :
            CyResult.dimensions[i][2].confidence = "medium"
    /\ CyResult.metadata.confidence = "medium"

\* the entries of a dimension's audit trail that are flagged estimated
CyEstimatedIn(i) ==
    {j \in DOMAIN CyResult.dimensions[i][2].sources :
        CyResult.dimensions[i][2].sources[j].estimated}

\* the declared sources of the k-th mapping for which the country has data
CyContributing(k) ==
    {j \in DOMAIN DIMENSION_SOURCES[k].sources :
        DataKey(Iso3, DIMENSION_SOURCES[k].sources[j]) \in DOMAIN cyData}

\* C11: in every result of calculateCountry, sourcesUsed is the sum over the
\* ten dimensions of the length of the dimension's audit trail, which counts
\* a source once for each dimension that it contributes to, and
\* estimatedFields is the sum over the dimensions of the audit-trail entries
\* flagged estimated
C11_Bookkeeping ==
    (cyFn = "calculate" /\ CyScored) =>
        /\ CyResult.metadata.sourcesUsed =
               SumOver([i \in DOMAIN CyResult.dimensions |->
                           Len(CyResult.dimensions[i][2].sources)],
                       DOMAIN CyResult.dimensions)
        /\ CyResult.metadata.sourcesUsed =
               SumOver([k \in DOMAIN DIMENSION_SOURCES |-> Cardinality(CyContributing(k))],
                       DOMAIN DIMENSION_SOURCES)
        /\ CyResult.metadata.estimatedFields =
               SumOver([i \in DOMAIN CyResult.dimensions |-> Cardinality(CyEstimatedIn(i))],
                       DOMAIN CyResult.dimensions)

\* a country with two data points, wgi_voice and wgi_effectiveness, both
\* estimated: they contribute to three and to four dimensions
C11_Witness ==
    /\ cyFn = "calculate"
    /\ CyScored
    /\ Cardinality(DOMAIN cyData) = 2
    /\ \A key \in DOMAIN cyData : cyData[key].estimated
    /\ CyResult.metadata.sourcesUsed = 7
    /\ CyResult.metadata.estimatedFields = 7

(***************************************************************************)
(* The entry points                                                        *)
(***************************************************************************)
\* the weights deviate from 1.0 by more than 0.001
EpWeightsDeviate ==
    LET sum == SumOver(epWeights, DOMAIN epWeights)
    IN  sum > 10000 + 10 \/ sum < 10000 - 10

\* C12: when the ten weights sum to a value that deviates from 1.0 by more
\* than 0.001, an entry point (main, generateScores) fails before any data
\* is loaded and before any country is scored: no data is loaded, no score
\* is produced, nothing is written
C12_ValidationPrecedesScoring ==
    (epEntry \in {"main", "generateScores"} /\ EpWeightsDeviate) =>
        /\ ~epLoaded
        /\ epResults = << >>
        /\ epOutput = << >>

\* generateScores has scored a country and written the results under
\* weights that sum to 1.0015
C12_Witness ==
    /\ epEntry = "generateScores"
    /\ SumOver(epWeights, DOMAIN epWeights) = 10015
    /\ epPc = "returned"
    /\ epOutput # << >>
    /\ Len(epOutput[1]) > 0

\* C13: a range with min >= max is detected and fails fast: normalizeValue
\* returns no score, be it NaN, Infinity or a number, computed from such a
\* range
C13_DegenerateRangeFailsFast ==
    (nvFn \in {"calculate", "generate"} /\ nvConfig.inputRange[1] >= nvConfig.inputRange[2])
        => ~Returned(nvResult)

\* normalizeValue has returned NaN for a range with min = max
C13_Witness ==
    /\ nvFn = "calculate"
    /\ nvConfig.inputRange[1] = nvConfig.inputRange[2]
    /\ nvResult = <<NaN>>

\* C14: calculateDimensionScore called with a name that has no entry in
\* DIMENSION_SOURCES raises the error "Unknown dimension: <name>", whatever
\* data the country has, and returns no DimensionScore
C14_UnknownDimension ==
    (dsFn = "calculate" /\ DimensionReturned /\ dsDimension \notin DimensionNames) =>
        ValueOf(dsResult) = [error |-> "Unknown dimension: " \o dsDimension]

\* the call with a name that is no dimension, for a country that has data
\* under the keys of a real dimension
C14_Witness ==
    /\ dsFn = "calculate"
    /\ DimensionReturned
    /\ dsDimension = UnknownDimension
    /\ DataKey(Iso3, DIMENSION_SOURCES[1].sources[1]) \in DOMAIN dsData
    /\ DOMAIN ValueOf(dsResult) = {"error"}

\* the k-th of the declared sources that have a data point, in declared order
DsPresentAt(k) ==
    CHOOSE i \in DsPresent : Cardinality({j \in DsPresent : j <= i}) = k

DsTrail == ValueOf(dsResult).sources

\* C15: the audit trail of a DimensionScore has one entry for each declared
\* source of the dimension whose data point is present, in declared order,
\* and no other; the entry carries the declared sourceId and weight, the
\* data point's value and normalizeValue of that value under the source's
\* config; the score is the weighted mean of exactly these entries
C15_AuditTrail ==
    (dsFn = "calculate" /\ DimensionScored) =>
        /\ Len(DsTrail) = Cardinality(DsPresent)
        /\ \A k \in DOMAIN DsTrail :
              LET i == DsPresentAt(k)
              IN  /\ DsTrail[k].sourceId = DsSources[i].sourceId
                  /\ DsTrail[k].weight = DsSources[i].weight
                  /\ DsTrail[k].rawValue = DsPoint(i).value
                  /\ DsTrail[k].estimated = DsPoint(i).estimated
                  /\ DsTrail[k].normalizedValue =
                        normalizeValue(DsTrail[k].rawValue,
                                       SOURCE_CONFIGS[DsTrail[k].sourceId])
        /\ DsTrail # << >> =>
              IsRounded(ValueOf(dsResult).score,
                        SumOver([k \in DOMAIN DsTrail |->
                                    DsTrail[k].normalizedValue * DsTrail[k].weight],
                                DOMAIN DsTrail),
                        SumOver([k \in DOMAIN DsTrail |-> DsTrail[k].weight],
                                DOMAIN DsTrail),
                        10)

\* justiceAccess with both fields of wjp_rule_of_law present, one of them
\* estimated: two entries of the same sourceId with the weights 0.5 and 0.3
C15_Witness ==
    /\ dsFn = "calculate"
    /\ DimensionScored
    /\ dsDimension = "justiceAccess"
    /\ Len(DsTrail) = 2
    /\ DsTrail[1].sourceId = "wjp_rule_of_law" /\ DsTrail[1].weight = 50
    /\ DsTrail[2].sourceId = "wjp_rule_of_law" /\ DsTrail[2].weight = 30
    /\ DsTrail[1].estimated /\ ~DsTrail[2].estimated
    /\ DsTrail[1].normalizedValue # DsTrail[2].normalizedValue

NvMin == nvConfig.inputRange[1]
NvMax == nvConfig.inputRange[2]

\* C16: for every config with min < max, normalizeValue of min is 0 and of
\* max is 100 when invert is false, and 100 and 0 when invert is true
\* (calculate.ts and generate.ts)
C16_NormalizationEndpoints ==
    (NormalizeReturned /\ NvMin < NvMax) =>
        /\ nvValue = NvMin => ValueOf(nvResult) = (IF nvConfig.invert THEN 10000 ELSE 0)
        /\ nvValue = NvMax => ValueOf(nvResult) = (IF nvConfig.invert THEN 0 ELSE 10000)

\* the lower end of an inverted range of SOURCE_CONFIGS scores 100
C16_Witness ==
    /\ NormalizeReturned
    /\ nvFn = "calculate"
    /\ nvConfig \in RangeOf(SOURCE_CONFIGS)
    /\ nvConfig.invert
    /\ nvValue = NvMin
    /\ ValueOf(nvResult) = 10000

\* the call's function, applied to another value
NvApply(value) ==
    IF nvFn = "calculate" THEN normalizeValue(value, nvConfig)
    ELSE gen_normalizeValue(value, nvConfig)

\* C17: for a value outside [min, max] normalizeValue returns what it
\* returns for the value clamped into the range, which is the score of the
\* nearest range bound; it raises no error
C17_ClampIdempotence ==
    (NormalizeReturned /\ NvMin < NvMax /\ (nvValue < NvMin \/ nvValue > NvMax)) =>
        LET clamped == IF nvValue < NvMin THEN NvMin ELSE NvMax
        IN  /\ ValueOf(nvResult) = NvApply(clamped)
            /\ ValueOf(nvResult) =
                  (IF (nvValue < NvMin) = nvConfig.invert THEN 10000 ELSE 0)

\* a value below the range of a config that is not inverted scores 0 in
\* generate.ts
C17_Witness ==
    /\ NormalizeReturned
    /\ nvFn = "generate"
    /\ nvValue < NvMin
    /\ ~nvConfig.invert
    /\ ValueOf(nvResult) = 0

CyScenario ==
    \/ cyFn = "calculate" /\ cyData = ScenarioRawData
    \/ cyFn = "generate" /\ cyData = ScenarioSourceValues

CyDimensionScore(d) == CyScoreOf(<<d, Get(CyResult.dimensions, d)>>)

KoScore(i) == IF koFn = "calculate" THEN koDimensions[i][2].score ELSE koDimensions[i][2]
KoWeightSum ==
    SumOver([i \in DOMAIN koDimensions |-> DIMENSION_WEIGHTS[koDimensions[i][1]]],
            DOMAIN koDimensions)
KoWeightedScores ==
    SumOver([i \in DOMAIN koDimensions |-> KoScore(i) * DIMENSION_WEIGHTS[koDimensions[i][1]]],
            DOMAIN koDimensions)
\* the exact weighted mean lies halfway between two integers
KoAtHalf == (2 * KoWeightedScores) % (200 * KoWeightSum) = 100 * KoWeightSum

\* C19, as stated: the composite of a given dimension map is the same value
\* on every call, whatever the year and the earlier calls, and whatever the
\* order in which the keys of the map are stored
C19_Determinism_AsStated ==
    \A i \in DOMAIN koCalls :
        /\ koCalls[i].stored = koCalls[1].stored
        /\ koCalls[i].reordered = koCalls[i].stored

\* C19, the part that holds: the composite of a given dimension map, its
\* keys stored in a given order, is the same value on every call, whatever
\* the year and the earlier calls; two maps of the same entries stored in
\* different orders get the same composite unless the exact weighted mean
\* lies halfway between two integers, and composites at most one point
\* apart there
C19_Determinism ==
    \A i \in DOMAIN koCalls :
        /\ koCalls[i].stored = koCalls[1].stored
        /\ koCalls[i].reordered = koCalls[1].reordered
        /\ Abs(koCalls[i].stored - koCalls[i].reordered) <= 100
        /\ ~KoAtHalf =>
              /\ koCalls[i].reordered = koCalls[i].stored
              /\ IsRounded(koCalls[i].stored, KoWeightedScores, KoWeightSum, 100)

\* C19 witness: two pairs of calls in different years on maps of the same
\* entries in different orders, the mean at a half: the two orders get
\* different composites, each of them the same in both years
C19_Witness ==
    /\ Len(koCalls) >= 2
    /\ koCalls[1].year # koCalls[2].year
    /\ koReordered # koDimensions
    /\ KoAtHalf
    /\ koCalls[2].stored # koCalls[2].reordered
    /\ koCalls[1].stored = koCalls[2].stored

\* C20: in calculate.ts the normalized values (as the audit trail holds
\* them) and the dimension scores are multiples of 0.1; in generate.ts the
\* values normalizeValue returns and the scores calculateDimensionScores
\* returns are integers; the composite is an integer on both paths
C20_RoundingPrecisions ==
    CyScored =>
        /\ CyResult.fairnessScore % 100 = 0
        /\ cyFn = "calculate" =>
              \A i \in DOMAIN CyResult.dimensions :
                  /\ CyResult.dimensions[i][2].score % 10 = 0
                  /\ \A j \in DOMAIN CyResult.dimensions[i][2].sources :
                        CyResult.dimensions[i][2].sources[j].normalizedValue % 10 = 0
        /\ cyFn = "generate" =>
              /\ \A i \in DOMAIN CyResult.dimensions :
                    CyResult.dimensions[i][2] % 100 = 0
              /\ \A sourceId \in DOMAIN cyData :
                    gen_normalizeValue(cyData[sourceId], gen_SOURCE_CONFIGS[sourceId]) % 100 = 0

\* C20 witness: calculateCountry has scored a country one of whose
\* dimensions has a score that is no integer, from sources with data
C20_Witness ==
    /\ cyFn = "calculate"
    /\ CyScored
    /\ \E i \in DOMAIN CyResult.dimensions :
          /\ CyResult.dimensions[i][2].score % 100 # 0
          /\ CyResult.dimensions[i][2].sources # << >>
    /\ CyResult.fairnessScore % 100 = 0

\* C21: in every result of calculateCountry, fairnessScore is
\* calculateFairnessScore of the dimensions map stored in that result, and
\* trend is calculateTrend of that fairnessScore and historicalScores (the
\* years being the ones its clock reads returned)
C21_OrchestratorSequencing ==
    (CyScored /\ cyFn = "calculate") =>
        /\ CyResult.fairnessScore = calculateFairnessScore(CyResult.dimensions)
        /\ Len(CyResult.dimensions) = Len(DIMENSION_SOURCES)
        /\ CyResult.trend =
              calculateTrend(CyResult.fairnessScore, cyHistory, cyYears[1], cyYears[2])

\* C21 witness: calculateCountry has scored a country that has data and a
\* usable history; the trend is the change of the composite just computed
C21_Witness ==
    /\ CyScored
    /\ cyFn = "calculate"
    /\ cyData # << >>
    /\ CyResult.trend.yearsCompared > 0
    /\ CyResult.trend.change # 0
    /\ CyResult.trend.change = MathRound(CyResult.fairnessScore - cyHistory[1].score, 100)

\* the data points of a rawData map that belong to country iso3
OwnSlice(rawData, iso3) ==
    [ key \in {DataKey(iso3, s) : s \in DeclaredSources} \cap DOMAIN rawData |->
        rawData[key] ]

\* C22: the dimensions, fairnessScore, trend, counts and confidence that
\* calculateCountry returns for a country are the same for two rawData maps
\* that agree on the country's own data points, whatever data the other
\* country has and whichever country was calculated before; no call changes
\* a rawData map
C22_CrossCountryIndependence ==
    /\ []((Returned(xcResult) /\ OwnSlice(xcData, Iso3) = OwnSlice(xcTwin, Iso3)) =>
              ValueOf(xcResult).data = ValueOf(xcResult).twin)
    /\ [][xcData' = xcData /\ xcTwin' = xcTwin]_vars

\* C22 witness: a country with data has been calculated on two maps that
\* differ in the other country's data, after a calculation of the other
\* country
C22_Witness ==
    /\ Returned(xcResult)
    /\ xcData # xcTwin
    /\ OwnSlice(xcData, Iso3) = OwnSlice(xcTwin, Iso3)
    /\ OwnSlice(xcData, Iso3) # << >>
    /\ OwnSlice(xcTwin, OtherIso3) # << >>
    /\ Len(xcEarlier) > 0
    /\ ValueOf(xcResult).data.metadata.sourcesUsed > 0
    /\ xcEarlier[1].metadata.sourcesUsed > 0

(***************************************************************************)
(* fetch-all                                                               *)
(***************************************************************************)
FetchSteps == <<"worldBank", "freedomHouse", "rsf">>

\* how many entries of the sequence q are x
CountOf(q, x) == Cardinality({i \in DOMAIN q : q[i] = x})

\* the report that the failure of a step or of an indicator's fetch gets
ReportOf(failure) ==
    IF failure = "worldBank" THEN "World Bank fetch failed"
    ELSE IF failure = "freedomHouse" THEN "Freedom House processing failed"
    ELSE IF failure = "rsf" THEN "RSF processing failed"
    ELSE "Error fetching " \o failure

\* C23: fetch-all starts the World Bank, Freedom House and RSF steps in that
\* order, each once; every failure so far has been reported once, in the
\* order of the failures, and nothing else has been reported; whatever
\* fails, the later steps are started and main reaches its completion
\* message
C23_FetchIsolation ==
    /\ [](/\ faRan = SubSeq(FetchSteps, 1, Len(faRan))
          /\ faLog = [i \in DOMAIN faFailures |-> ReportOf(faFailures[i])]
          /\ \A i \in DOMAIN faFailures : CountOf(faFailures, faFailures[i]) = 1
          /\ faPc \in {"start", "worldBank", "freedomHouse", "rsf", "complete"}
          /\ faPc = "complete" => faRan = FetchSteps)
    /\ <>(faPc = "complete")

\* C23 witness: main has reached its completion message after the fetch of
\* an indicator, the World Bank write and the Freedom House step have
\* failed, and the RSF files are written
C23_Witness ==
    /\ faPc = "complete"
    /\ faFailures = <<"VA.EST", "worldBank", "freedomHouse">>
    /\ Len(faLog) = 3
    /\ "processed/rsf-press-freedom.json" \in faFiles

\* C24: in every result of calculateCountry a dimension with no
\* contributing source is graded low; a country with sourcesUsed = 0 has all
\* ten dimensions graded low and overall confidence low, never high or
\* medium
C24_NoSourceIsLow ==
    (cyFn = "calculate" /\ CyScored) =>
        /\ \A i \in DOMAIN CyResult.dimensions :
              CyResult.dimensions[i][2].sources = << >> =>
                  CyResult.dimensions[i][2].confidence = "low"
        /\ CyResult.metadata.sourcesUsed = 0 =>
              /\ CyLowCount = Len(DIMENSION_SOURCES)
              /\ CyResult.metadata.confidence = "low"

\* C24 witness: a country with the data of one provider only: the
\* dimensions that provider does not contribute to are graded low, and so
\* is the country
C24_Witness ==
    /\ cyFn = "calculate"
    /\ CyScored
    /\ CyResult.metadata.sourcesUsed > 0
    /\ \E i \in DOMAIN CyResult.dimensions :
          /\ CyResult.dimensions[i][2].sources = << >>
          /\ CyResult.dimensions[i][2].confidence = "low"
    /\ \E i \in DOMAIN CyResult.dimensions : CyResult.dimensions[i][2].sources # << >>
    /\ CyResult.metadata.confidence = "low"

\* the sum of the declared source weights of a mapping
DeclaredWeight(mapping) ==
    SumOver([i \in DOMAIN mapping.sources |-> mapping.sources[i].weight],
            DOMAIN mapping.sources)

\* C25: in DIMENSION_SOURCES and in DIMENSION_MAPPINGS the declared source
\* weights of every dimension sum to 1.0; the weight of the sources present
\* is in [0, 1], and a dimension with every declared source present and
\* none estimated is graded high
C25_DeclaredWeights ==
    /\ \A i \in DOMAIN DIMENSION_SOURCES : DeclaredWeight(DIMENSION_SOURCES[i]) = 100
    /\ \A i \in DOMAIN DIMENSION_MAPPINGS : DeclaredWeight(DIMENSION_MAPPINGS[i]) = 100
    /\ (DimensionScored /\ dsFn = "calculate") =>
          /\ 0 <= DsPresentWeight /\ DsPresentWeight <= 100
          /\ SumOver([j \in DOMAIN ValueOf(dsResult).sources |->
                         ValueOf(dsResult).sources[j].weight],
                     DOMAIN ValueOf(dsResult).sources) = DsPresentWeight
          /\ (DsPresent = DOMAIN DsSources /\ DsEstimated = 0) =>
                ValueOf(dsResult).confidence = "high"
    /\ (DimensionReturned /\ dsFn = "generate") =>
          \A i \in DOMAIN DIMENSION_MAPPINGS :
              LET d == DIMENSION_MAPPINGS[i].dimension
              IN  0 <= GenPresentWeight(d) /\ GenPresentWeight(d) <= 100

\* C25 witness: a dimension of three declared sources, all of them present
\* and measured, is graded high on a total weight of 1.0
C25_Witness ==
    /\ DimensionScored
    /\ dsFn = "calculate"
    /\ Len(DsSources) = 3
    /\ DsPresent = DOMAIN DsSources
    /\ DsEstimated = 0
    /\ DsPresentWeight = 100
    /\ ValueOf(dsResult).confidence = "high"


\* the source ids a table of mappings refers to
ReferencedSources(mappings) ==
    UNION {{mappings[i].sources[j].sourceId : j \in DOMAIN mappings[i].sources} :
              i \in DOMAIN mappings}

ConfigsCover(mappings, configs) ==
    \A id \in ReferencedSources(mappings) :
        /\ id \in DOMAIN configs
        /\ configs[id].inputRange[1] < configs[id].inputRange[2]

\* C26: every source id a mapping refers to has an entry in the SOURCE_CONFIGS
\* of the same file, of a range with min < max; so no present data point of a
\* declared source is skipped for want of a config: calculateDimensionScore
\* has one audit entry for each present declared source, their weights make
\* the total weight and their weighted values the score, and each score of
\* calculateDimensionScores is the weighted mean over every present source
C26_ConfigsCoverMappings ==
    /\ ConfigsCover(DIMENSION_SOURCES, SOURCE_CONFIGS)
    /\ ConfigsCover(DIMENSION_MAPPINGS, gen_SOURCE_CONFIGS)
    /\ (DimensionScored /\ dsFn = "calculate") =>
          /\ Len(DsTrail) = Cardinality(DsPresent)
          /\ \A k \in DOMAIN DsTrail :
                DsTrail[k].sourceId = DsSources[DsPresentAt(k)].sourceId
          /\ SumOver([k \in DOMAIN DsTrail |-> DsTrail[k].weight], DOMAIN DsTrail)
                = DsPresentWeight
          /\ DsPresent # {} =>
                IsRounded(ValueOf(dsResult).score, DsWeightedValues, DsPresentWeight, 10)
    /\ (DimensionReturned /\ dsFn = "generate") =>
          \A d \in DimensionNames :
              IF GenPresent(d) = {} THEN Get(ValueOf(dsResult), d) = 5000
              ELSE IsRounded(Get(ValueOf(dsResult), d), GenWeightedValues(d),
                             GenPresentWeight(d), 100)

\* C26 witness: democraticVoice scored with the data points of all its
\* three declared sources, each of them in the audit trail
C26_Witness ==
    /\ dsFn = "calculate"
    /\ DimensionScored
    /\ dsDimension = "democraticVoice"
    /\ DsPresent = DOMAIN DsSources
    /\ Len(DsTrail) = 3
    /\ DsTrail[1].sourceId = "freedom_house_political"


\* the same scores under the same keys in the same order, as the
\* Record<string, DimensionScore> of calculate.ts and as the
\* Record<string, number> of generate.ts
FsAsDimensionScores ==
    [i \in DOMAIN fsDimensions |->
        <<fsDimensions[i][1],
          [score |-> FsScore(i), sources |-> << >>, confidence |-> "low"]>>]

FsAsNumbers == [i \in DOMAIN fsDimensions |-> <<fsDimensions[i][1], FsScore(i)>>]

FsIntegerScores == \A i \in DOMAIN fsDimensions : FsScore(i) % 100 = 0

FsTenCanonicalKeys ==
    IsCanonicalPrefix(fsDimensions) /\ Len(fsDimensions) = Len(CanonicalKeys)

\* C27: for every map of integer dimension scores over the ten canonical
\* keys, calculateOverallScore (generate.ts) and calculateFairnessScore
\* (calculate.ts) return the same value, which is the value the call of the
\* state returned; the two DIMENSION_WEIGHTS tables are the same table
C27_CompositesCoincide ==
    /\ DIMENSION_WEIGHTS = gen_DIMENSION_WEIGHTS
    /\ (Returned(fsResult) /\ FsTenCanonicalKeys /\ FsIntegerScores) =>
          /\ calculateFairnessScore(FsAsDimensionScores)
                = calculateOverallScore(FsAsNumbers)
          /\ ValueOf(fsResult) = calculateFairnessScore(FsAsDimensionScores)
          /\ ValueOf(fsResult) = calculateOverallScore(FsAsNumbers)

\* C27 witness: calculateOverallScore has returned 48 for the ten canonical
\* dimensions, of which the first scores 100, the second 50 and the rest
\* 50 or less, not all the same
C27_Witness ==
    /\ fsFn = "generate"
    /\ Returned(fsResult)
    /\ FsTenCanonicalKeys
    /\ FsScore(1) = 10000
    /\ FsScore(2) = 5000
    /\ \E i, j \in 3 .. 10 : FsScore(i) # FsScore(j)
    /\ ValueOf(fsResult) = 4800
    /\ calculateFairnessScore(FsAsDimensionScores) = 4800


\* the raw values the returned score is compared with: the points spread
\* over the config's range and the two next to the value normalized
NvNeighbours == ValuePoints(nvConfig) \cup {nvValue - 1, nvValue + 1}

\* C28: for a config with min < max normalizeValue is monotone in the raw
\* value: with a the value normalized and b any other raw value, a <= b
\* implies normalizeValue(a) <= normalizeValue(b) when invert is false and
\* normalizeValue(a) >= normalizeValue(b) when invert is true, and likewise
\* for b <= a; this holds in calculate.ts and in generate.ts
C28_NormalizeMonotone ==
    (NormalizeReturned /\ NvMin < NvMax) =>
        \A b \in NvNeighbours :
            /\ ValueOf(nvResult) = NvApply(nvValue)
            /\ (nvValue <= b /\ ~nvConfig.invert) => ValueOf(nvResult) <= NvApply(b)
            /\ (nvValue <= b /\ nvConfig.invert) => ValueOf(nvResult) >= NvApply(b)
            /\ (b <= nvValue /\ ~nvConfig.invert) => NvApply(b) <= ValueOf(nvResult)
            /\ (b <= nvValue /\ nvConfig.invert) => NvApply(b) >= ValueOf(nvResult)

\* C28 witness: under an inverted config a value inside the range has been
\* normalized; a greater value scores strictly less, and another greater
\* value rounds to the same score
C28_Witness ==
    /\ NormalizeReturned
    /\ nvConfig.invert
    /\ NvMin < nvValue /\ nvValue < NvMax
    /\ \E b \in NvNeighbours : b > nvValue /\ NvApply(b) < ValueOf(nvResult)
    /\ \E b \in NvNeighbours : b > nvValue /\ NvApply(b) = ValueOf(nvResult)


\* the number of (dimension, source) entries DIMENSION_SOURCES declares
DeclaredEntries ==
    SumSeq([i \in DOMAIN DIMENSION_SOURCES |-> Len(DIMENSION_SOURCES[i].sources)])

CountBounds ==
    (cyFn = "calculate" /\ CyScored) =>
        /\ 0 <= CyResult.metadata.estimatedFields
        /\ CyResult.metadata.estimatedFields <= CyResult.metadata.sourcesUsed
        /\ CyResult.metadata.sourcesUsed <= DeclaredEntries
        /\ \A i \in DOMAIN CyResult.dimensions :
              Len(CyResult.dimensions[i][2].sources)
                  <= Len(MappingIn(DIMENSION_SOURCES,
                                   CyResult.dimensions[i][1]).sources)

\* C29 as stated: the counts are bounded as below and DIMENSION_SOURCES
\* declares 28 (dimension, source) entries
C29_CountBounds_AsStated == CountBounds /\ DeclaredEntries = 28

\* C29: in every result of calculateCountry,
\* 0 <= metadata.estimatedFields <= metadata.sourcesUsed <= the number of
\* (dimension, source) entries declared in DIMENSION_SOURCES, which is 27,
\* and the audit trail of each dimension has at most as many entries as
\* the dimension declares sources
C29_CountBounds == CountBounds /\ DeclaredEntries = 27

\* C29 witness: a country with a data point for every declared entry, some
\* of them estimated: sourcesUsed is 27
C29_Witness ==
    /\ cyFn = "calculate"
    /\ CyScored
    /\ CyResult.metadata.sourcesUsed = 27
    /\ 0 < CyResult.metadata.estimatedFields
    /\ CyResult.metadata.estimatedFields < 27


LatestReturned == Returned(lvResult)

\* the observations of a country: the data points of its code whose value
\* is not null
Observations(code) ==
    {k \in DOMAIN lvPoints :
        lvPoints[k].countryiso3code = code /\ lvPoints[k].value # << >>}

\* the year of the k-th data point, dates being four-digit years
YearOfPoint(k) == parseInt(lvPoints[k].date)[1]

\* the first of the country's observations of its greatest year
LatestObservation(code) ==
    CHOOSE k \in Observations(code) :
        /\ \A j \in Observations(code) : YearOfPoint(j) <= YearOfPoint(k)
        /\ \A j \in Observations(code) : YearOfPoint(j) = YearOfPoint(k) => k <= j

\* C30: getLatestValue returns a Map whose keys are the non-empty country
\* codes that have an observation with a non-null value; the entry of a
\* code holds the value and the year of its observation with the greatest
\* year and, of several observations of that year, of the first in the
\* response; data points with a null value or an empty code are neither in
\* the result nor replace an entry
C30_LatestValue ==
    LatestReturned =>
        LET latest == ValueOf(lvResult)
        IN  /\ DOMAIN latest = {code \in ResponseCodes \ {""} : Observations(code) # {}}
            /\ \A code \in DOMAIN latest :
                  LET k == LatestObservation(code)
                  IN  /\ latest[code].value = lvPoints[k].value[1]
                      /\ latest[code].year = <<YearOfPoint(k)>>

\* C30 witness: two observations of 2022, then a null value dated 2023, all
\* of one country: the result holds the first observation, value 0
C30_Witness ==
    /\ LatestReturned
    /\ Len(lvPoints) = 3
    /\ \A k \in 1 .. 3 : lvPoints[k].countryiso3code = Iso3
    /\ lvPoints[1].date = <<"2", "0", "2", "2">> /\ lvPoints[1].value = <<0>>
    /\ lvPoints[2].date = <<"2", "0", "2", "2">> /\ lvPoints[2].value = <<50>>
    /\ lvPoints[3].date = <<"2", "0", "2", "3">> /\ lvPoints[3].value = << >>
    /\ ValueOf(lvResult) = (Iso3 :> [value |-> 0, year |-> <<2022>>])

=========================================================================
